---------------------------- MODULE Spec2Model ----------------------------
(* A model of the line-indexed file reader, the log-line parser, the search *)
(* engine, the result mapper, the tabs and the tables of json-log-reader.   *)
(*                                                                          *)
(* A file is a sequence of bytes; a byte is a one-character string, except  *)
(* "xFF", which stands for the single byte 0xFF (never valid in UTF-8).     *)
(* A decoded string is a sequence of characters; "uFFFD" stands for the     *)
(* replacement character U+FFFD.                                            *)
(*                                                                          *)
(* Spec         the reader, with other processes writing the file between   *)
(*              its calls; a load sees one content of the file from its     *)
(*              scan to its size query                                      *)
(* SpecParse    parse_logline on its own                                    *)
(* SpecSearch   search on its own                                           *)
(* SpecSearchUi FilteredLogEntriesTab and SearchWindow                      *)
(* SpecMap      the rows and lines of LogEntriesTable                       *)
(* SpecWatch    the reader, the watcher thread and the polls of has_changed *)
(* SpecReload   loads on a change signal while the file grows               *)
(* SpecFrame    every operation of the reader next to a search, a growing   *)
(*              file and a clock                                            *)
(* SpecOpen     TemplateApp::open_file down to LogFileReader::open and the  *)
(*              first load                                                  *)
(* FairWatch    SpecWatch with the watcher thread and the polls scheduled   *)
(*              fairly                                                      *)
(* SpecRepeat   the frames of FilteredLogEntriesTab::ui, loads and a clock  *)
(* SpecStale    the frames of that tab while the file is written            *)
(* SpecEntriesTab the frames of LogEntriesTab                               *)
(* SpecRace     loads whose scan and size query see different contents      *)
(* SpecTable    the frames of two LogEntriesTables that share a selection   *)
(* SpecRecent   TemplateApp::open_file and recent_files                     *)
(* SpecWindow   the frames of SearchWindow on its own                       *)
EXTENDS Integers, Sequences, FiniteSets, TLC

VARIABLES
    file,             \* the watched file on disk: a sequence of chunks written by the logging process
    line_map,         \* LogFileReader.line_map
    file_size,        \* LogFileReader.file_size
    load_time_point,  \* LogFileReader.load_time_point (Option<SystemTime>)
    load_result,      \* what the most recent load() returned to its caller: "none", "ok", "err"
    file_changed,     \* the file was written after the most recent successful load() scanned it
    panicked,         \* the thread that owns the reader has panicked
    now,              \* the system clock read by SystemTime::now()
    filtered_tab,     \* the FilteredLogEntriesTab
    search_window,    \* the SearchWindow
    search_ui,        \* which of the two owns the search: a view has one or the other
    watcher,          \* the file watcher, its thread and the channel to LogFileReader.watcher_recv
    log_view,         \* the LogView tab of the file in TemplateApp.tree, if one was opened
    tables,           \* the LogEntriesTables of a view, by table
    viewer_state,     \* the LogViewerState the tables of a view share
    log_entries_tab,  \* the LogEntriesTab
    selection_state,  \* the LogSelectionState handed to LogEntriesTab::ui
    app,              \* TemplateApp: the paths of the tabs in its tree and recent_files
    input,            \* the arguments handed to an associated function
    last              \* the most recent operation, its argument and the value it returned

readerVars == <<line_map, file_size, load_time_point, load_result, panicked>>
uiVars == <<filtered_tab, search_window, search_ui>>
shellVars == <<tables, viewer_state, log_entries_tab, selection_state, app>>
vars == <<file, line_map, file_size, load_time_point, load_result, file_changed, panicked,
          now, filtered_tab, search_window, search_ui, watcher, log_view, tables,
          viewer_state, log_entries_tab, selection_state, app, input, last>>

-----------------------------------------------------------------------------
(* Bounds *)

\* Most chunks the logging process has written to the file.
MaxChunks == 2

\* Most tokens in a line handed to parse_logline.
MaxTokens == 5

\* Most lines in a file handed to search.
MaxSearchLines == 3

\* Largest line number in a set of filtered entries.
MaxLineNum == 4

-----------------------------------------------------------------------------
(* Bytes, characters and files *)

NL == "\n"
QUOTE == "\""
INVALID_BYTE == "xFF"
REPLACEMENT_CHAR == "uFFFD"

\* {"t":"<FF>"}\n : a terminated log entry; its timestamp holds a byte that
\* is not valid UTF-8.
ChunkEntry == <<"{", QUOTE, "t", QUOTE, ":", QUOTE, INVALID_BYTE, QUOTE, "}", NL>>
\* {} : a JSON object without a "t" field, unterminated. Two of them in a row
\* make a line that is not JSON.
ChunkObject == <<"{", "}">>
\* a line terminator on its own.
ChunkNewline == <<NL>>

\* What the logging process writes.
FileChunks == {ChunkEntry, ChunkObject, ChunkNewline}

RECURSIVE Flatten(_)
Flatten(chunks) ==
    IF chunks = <<>> THEN <<>> ELSE Head(chunks) \o Flatten(Tail(chunks))

\* The bytes of the file as a reader sees them.
Bytes(f) == Flatten(f)

RECURSIVE SeqsUpTo(_, _)
SeqsUpTo(S, n) ==
    IF n = 0 THEN {<<>>}
    ELSE LET shorter == SeqsUpTo(S, n - 1)
         IN  shorter \cup {Append(s, x) : s \in shorter, x \in S}

Files == SeqsUpTo(FileChunks, MaxChunks)

\* usize::MAX, the value a release build computes for 0usize - 1.
USIZE_MAX == 2147483647

\* What an operation returns: the variant, and the string, the number or the
\* line numbers it carries.
\* Option<T>
None == [tag |-> "None", str |-> <<>>, num |-> 0, lines |-> <<>>]
SomeStr(s) == [tag |-> "Some", str |-> s, num |-> 0, lines |-> <<>>]
SomeNum(n) == [tag |-> "Some", str |-> <<>>, num |-> n, lines |-> <<>>]
SomeLines(l) == [tag |-> "Some", str |-> <<>>, num |-> 0, lines |-> l]
\* io::Result<usize>
Ok(n) == [tag |-> "Ok", str |-> <<>>, num |-> n, lines |-> <<>>]
Err == [tag |-> "Err", str |-> <<>>, num |-> 0, lines |-> <<>>]
\* SearchResult: Ok(matches), Err(SearchError::GrepError), Err(SearchError::IoError)
SearchOk(l) == [tag |-> "Ok", str |-> <<>>, num |-> 0, lines |-> l]
SearchErr(kind) == [tag |-> kind, str |-> <<>>, num |-> 0, lines |-> <<>>]
\* the operation did not return: the thread panicked
Panic == [tag |-> "Panic", str |-> <<>>, num |-> 0, lines |-> <<>>]

\* String::from_utf8_lossy: every invalid byte becomes U+FFFD.
from_utf8_lossy(bytes) ==
    [i \in 1..Len(bytes) |->
        IF bytes[i] = INVALID_BYTE THEN REPLACEMENT_CHAR ELSE bytes[i]]

-----------------------------------------------------------------------------
(* The line scan of grep's Searcher *)

\* A scan that takes all that is left of the input as one line.
LineEnd_at_end_of_input(bytes, pos) == Len(bytes)

\* The end offset of the line that starts at offset pos: just after its
\* terminator, or the end of the input.
RECURSIVE LineEnd(_, _)
LineEnd(bytes, pos) ==
    IF pos >= Len(bytes) THEN Len(bytes)
    ELSE IF bytes[pos + 1] = NL THEN pos + 1
    ELSE LineEnd(bytes, pos + 1)

\* The absolute byte offset of the start of every line, in scan order: the
\* offsets the sink receives when every line matches.
RECURSIVE ScanLines(_, _, _)
ScanLines(bytes, pos, acc) ==
    IF pos >= Len(bytes) THEN acc
    ELSE ScanLines(bytes, LineEnd(bytes, pos), Append(acc, pos))

\* A scan that reports a line only when a terminator ends it.
LineStarts_terminated_only(bytes) ==
    LET starts == ScanLines(bytes, 0, <<>>)
    IN  IF bytes # <<>> /\ bytes[Len(bytes)] # NL
        THEN SubSeq(starts, 1, Len(starts) - 1)
        ELSE starts

\* The offsets load's sink receives: the line matcher "$" matches at the end of
\* every line, so the sink is called once per line, with the line's start.
LineStarts(bytes) == ScanLines(bytes, 0, <<>>)

-----------------------------------------------------------------------------
(* json::parse, on the JSON this model's inputs can spell: objects, arrays,  *)
(* strings without escapes, unsigned integers, true, false and null.        *)

\* A JsonValue: kind is "object", "array", "string", "number", "boolean" or
\* "null"; text holds a string's characters, a number's digits or a literal's
\* name; members holds an object's or array's [key, value] entries in order.
JsonNode(kind, text, members) == [kind |-> kind, text |-> text, members |-> members]
JsonNull == JsonNode("null", <<>>, <<>>)

\* What a parsing step returns: the value and the position after it.
Parsed(node, pos) == [ok |-> TRUE, node |-> node, pos |-> pos]
ParseError == [ok |-> FALSE, node |-> JsonNull, pos |-> 0]

JsonWhitespace == {" ", NL, "\t", "\r"}
JsonDigits == {"0", "1", "2", "3", "4", "5", "6", "7", "8", "9"}
\* Characters a string may not hold unescaped.
JsonControl == {NL, "\t", "\r"}

RECURSIVE SkipWhitespace(_, _)
SkipWhitespace(s, i) ==
    IF i <= Len(s) /\ s[i] \in JsonWhitespace THEN SkipWhitespace(s, i + 1) ELSE i

\* The position of the quote that closes the string whose first character is
\* at i, or 0 when there is none.
RECURSIVE StringEnd(_, _)
StringEnd(s, i) ==
    IF i > Len(s) THEN 0
    ELSE IF s[i] = QUOTE THEN i
    ELSE IF s[i] \in JsonControl \/ s[i] = "\\" THEN 0
    ELSE StringEnd(s, i + 1)

\* s[i] is the opening quote.
ParseString(s, i) ==
    LET close == StringEnd(s, i + 1)
    IN  IF close = 0 THEN ParseError
        ELSE Parsed(JsonNode("string", SubSeq(s, i + 1, close - 1), <<>>), close + 1)

RECURSIVE DigitsEnd(_, _)
DigitsEnd(s, i) ==
    IF i <= Len(s) /\ s[i] \in JsonDigits THEN DigitsEnd(s, i + 1) ELSE i

\* s[i] is a digit. A leading 0 ends the number.
ParseNumber(s, i) ==
    LET stop == IF s[i] = "0" THEN i + 1 ELSE DigitsEnd(s, i)
    IN  Parsed(JsonNode("number", SubSeq(s, i, stop - 1), <<>>), stop)

ParseLiteral(s, i, word, kind) ==
    IF i + Len(word) - 1 <= Len(s) /\ SubSeq(s, i, i + Len(word) - 1) = word
    THEN Parsed(JsonNode(kind, word, <<>>), i + Len(word))
    ELSE ParseError

\* Object::insert: a key that is already present keeps its place and takes
\* the new value.
ObjectInsert(members, key, value) ==
    IF \E k \in 1..Len(members) : members[k].key = key
    THEN [k \in 1..Len(members) |->
            IF members[k].key = key THEN [key |-> key, value |-> value] ELSE members[k]]
    ELSE Append(members, [key |-> key, value |-> value])

RECURSIVE ParseValue(_, _), ParseMembers(_, _, _), ParseElements(_, _, _)

\* A value, after optional whitespace.
ParseValue(s, i0) ==
    LET i == SkipWhitespace(s, i0)
    IN  IF i > Len(s) THEN ParseError
        ELSE IF s[i] = "{" THEN
            LET j == SkipWhitespace(s, i + 1)
            IN  IF j <= Len(s) /\ s[j] = "}"
                THEN Parsed(JsonNode("object", <<>>, <<>>), j + 1)
                ELSE ParseMembers(s, j, <<>>)
        ELSE IF s[i] = "[" THEN
            LET j == SkipWhitespace(s, i + 1)
            IN  IF j <= Len(s) /\ s[j] = "]"
                THEN Parsed(JsonNode("array", <<>>, <<>>), j + 1)
                ELSE ParseElements(s, j, <<>>)
        ELSE IF s[i] = QUOTE THEN ParseString(s, i)
        ELSE IF s[i] \in JsonDigits THEN ParseNumber(s, i)
        ELSE IF s[i] = "t" THEN ParseLiteral(s, i, <<"t", "r", "u", "e">>, "boolean")
        ELSE IF s[i] = "f" THEN ParseLiteral(s, i, <<"f", "a", "l", "s", "e">>, "boolean")
        ELSE IF s[i] = "n" THEN ParseLiteral(s, i, <<"n", "u", "l", "l">>, "null")
        ELSE ParseError

\* The members of an object from position i, which must hold a key, to the
\* closing brace.
ParseMembers(s, i, acc) ==
    IF i > Len(s) \/ s[i] # QUOTE THEN ParseError
    ELSE LET key == ParseString(s, i)
         IN  IF ~key.ok THEN ParseError
             ELSE LET colon == SkipWhitespace(s, key.pos)
                  IN  IF colon > Len(s) \/ s[colon] # ":" THEN ParseError
                      ELSE LET value == ParseValue(s, colon + 1)
                           IN  IF ~value.ok THEN ParseError
                               ELSE LET members == ObjectInsert(acc, key.node.text, value.node)
                                        next == SkipWhitespace(s, value.pos)
                                    IN  IF next > Len(s) THEN ParseError
                                        ELSE IF s[next] = "}"
                                        THEN Parsed(JsonNode("object", <<>>, members), next + 1)
                                        ELSE IF s[next] = ","
                                        THEN ParseMembers(s, SkipWhitespace(s, next + 1), members)
                                        ELSE ParseError

\* The elements of an array from position i to the closing bracket.
ParseElements(s, i, acc) ==
    LET value == ParseValue(s, i)
    IN  IF ~value.ok THEN ParseError
        ELSE LET elements == Append(acc, [key |-> <<>>, value |-> value.node])
                 next == SkipWhitespace(s, value.pos)
             IN  IF next > Len(s) THEN ParseError
                 ELSE IF s[next] = "]"
                 THEN Parsed(JsonNode("array", <<>>, elements), next + 1)
                 ELSE IF s[next] = ","
                 THEN ParseElements(s, next + 1, elements)
                 ELSE ParseError

\* json::parse: one value, then nothing but whitespace.
json_parse(s) ==
    LET value == ParseValue(s, 1)
    IN  IF value.ok /\ SkipWhitespace(s, value.pos) > Len(s) THEN value ELSE ParseError

\* JsonValue's index by key: the member's value, or null when the value is
\* not an object or has no such member.
JsonIndex(node, key) ==
    IF node.kind = "object" /\ \E k \in 1..Len(node.members) : node.members[k].key = key
    THEN LET k == CHOOSE k \in 1..Len(node.members) : node.members[k].key = key
         IN  node.members[k].value
    ELSE JsonNull

\* Option<LogEntry>
NoEntry == [tag |-> "None", timestamp |-> <<>>, object |-> JsonNull]
SomeEntry(timestamp, object) == [tag |-> "Some", timestamp |-> timestamp, object |-> object]

\* A parse_logline that takes any "t" for a timestamp.
parse_logline_any_timestamp(line) ==
    LET log_entry == json_parse(line)
    IN  IF ~log_entry.ok THEN NoEntry
        ELSE IF log_entry.node.kind = "object" /\ JsonIndex(log_entry.node, <<"t">>) # JsonNull
        THEN SomeEntry(JsonIndex(log_entry.node, <<"t">>).text, log_entry.node)
        ELSE NoEntry

\* LogFileReader::parse_logline
parse_logline(line) ==
    LET log_entry == json_parse(line)
    IN  IF ~log_entry.ok THEN NoEntry
        ELSE IF log_entry.node.kind = "object"
        THEN LET t == JsonIndex(log_entry.node, <<"t">>)
             IN  IF t.kind = "string" THEN SomeEntry(t.text, log_entry.node) ELSE NoEntry
        ELSE NoEntry

-----------------------------------------------------------------------------
(* LogFileReader *)

\* The record of an operation: its name, its line-number argument, whether its
\* I/O met no error, its string argument, the value it returned, and the entry
\* it returned.
Op(op, n, io_ok, arg, val, entry) ==
    [op |-> op, n |-> n, io_ok |-> io_ok, arg |-> arg, val |-> val, entry |-> entry]

\* Option<SystemTime>
NoTime == [some |-> FALSE, t |-> 0]
SomeTime(t) == [some |-> TRUE, t |-> t]

\* A load that forgets the sentinel.
load_index_without_sentinel(bytes) == LineStarts(bytes)

\* The index a load that runs to its end builds: the start of every line the
\* scan reports, then the file size.
load_index(bytes) == Append(LineStarts(bytes), Len(bytes))

\* LogFileReader::line_count. On an empty line_map a release build wraps to
\* usize::MAX.
line_count_of(lm) == IF Len(lm) = 0 THEN USIZE_MAX ELSE Len(lm) - 1

line_count == line_count_of(line_map)

\* LogFileReader::line_start_offset
line_start_offset(line_num) ==
    IF line_num + 1 <= Len(line_map) THEN line_map[line_num + 1] ELSE file_size

\* An end offset taken from the line's own entry of the index.
line_end_offset_off_by_one(line_num) ==
    IF line_num + 1 <= Len(line_map) THEN line_map[line_num + 1] ELSE file_size

\* LogFileReader::line_end_offset
line_end_offset(line_num) ==
    IF line_num + 2 <= Len(line_map) THEN line_map[line_num + 2] ELSE file_size

\* LogFileReader::line_file_offsets
line_file_offsets(line_num) ==
    [start |-> line_start_offset(line_num), end |-> line_end_offset(line_num)]

\* A read_line that leaves the line terminator out of what it returns.
read_line_without_terminator(line_num, io_ok) ==
    LET start == line_start_offset(line_num)
        end == line_end_offset(line_num)
        bytes == Bytes(file)
        stop == IF end > start /\ end <= Len(bytes) /\ bytes[end] = NL THEN end - 1 ELSE end
    IN  IF ~io_ok THEN None
        ELSE IF end < start THEN Panic
        ELSE IF end > Len(bytes) THEN None
        ELSE SomeStr(from_utf8_lossy(SubSeq(bytes, start + 1, stop)))

\* LogFileReader::read_line. io_ok: the seek and the read meet no I/O error
\* other than reaching the end of the file.
read_line(line_num, io_ok) ==
    LET offsets == line_file_offsets(line_num)
        bytes == Bytes(file)
    IN  IF ~io_ok THEN None
        ELSE IF offsets.end < offsets.start THEN Panic
        ELSE IF offsets.end > Len(bytes) THEN None
        ELSE SomeStr(from_utf8_lossy(SubSeq(bytes, offsets.start + 1, offsets.end)))

\* A read_entry that hands back an entry for every line it could read.
read_entry_without_parse(line_num, io_ok) ==
    LET line_content == read_line(line_num, io_ok)
    IN  IF line_content.tag = "Some"
        THEN SomeEntry(<<>>, JsonNode("string", line_content.str, <<>>))
        ELSE NoEntry

\* LogFileReader::read_entry
read_entry(line_num, io_ok) ==
    LET line_content == read_line(line_num, io_ok)
    IN  IF line_content.tag = "Some" THEN parse_logline(line_content.str) ELSE NoEntry

LoadFaults == {"none", "rewind", "scan", "seek"}

\* SearchOptions::default
SearchOptions_default == [case_sensitive |-> FALSE, whole_word |-> FALSE, regex |-> FALSE]

\* FilteredLogEntriesTab::new
FilteredLogEntriesTab_new ==
    [editable_search_term |-> <<>>,
     search_term |-> <<>>,
     search_results |-> <<>>,
     search_options |-> SearchOptions_default,
     repeat_search |-> TRUE,
     last_search_time |-> NoTime]

\* SearchWindow::new
SearchWindow_new ==
    [search_text |-> <<>>,
     is_open |-> FALSE,
     search_results |-> <<>>,
     selected_search_result_row |-> None,
     selection_changed |-> FALSE,
     search_options |-> SearchOptions_default,
     wants_open_results |-> FALSE]

\* The watcher as LogFileReader::open leaves it: the path is watched and no
\* event has been seen. queued counts the events the operating system holds
\* for the watcher thread; sending says that the thread is inside
\* Sender::send on the channel of capacity 0, waiting for a receiver; emitted
\* and received count the events handed to send and taken by try_recv;
\* queued_since_true and emitted_since_true count the events queued and the
\* events handed to send since has_changed last returned true.
Watching ==
    [queued |-> 0, sending |-> FALSE, emitted |-> 0, received |-> 0,
     queued_since_true |-> 0, emitted_since_true |-> 0]

\* RichText of LogLinesView.status_text: its wording, the number in it, and
\* whether it is red.
StatusText(text, count, red) == [text |-> text, count |-> count, red |-> red]

\* No LogView of the file is in the tree.
NoLogView == [open |-> FALSE, status_text |-> StatusText("", 0, FALSE)]

\* The tables of a view: the one of the log tab, drawn without filtered
\* entries, and the one of a search tab, drawn with its search results.
TableIds == {"log", "search"}

\* LogEntriesTable::new
LogEntriesTable_new ==
    [selected_line |-> None,
     scroll_to_selected |-> FALSE,
     sync_line_selection |-> TRUE,
     tail_log |-> FALSE]

\* LogViewerState, as far as the tables use it: the selection they share.
LogViewerState_new == [selected_line_num |-> None]

\* LogEntriesTab::new. scrolled says whether the most recent frame of the
\* tab asked its table to scroll to the selected line, and response is the
\* LogViewTabResponse.selected_line_num that frame returned.
LogEntriesTab_new == [selected_line_num |-> None, scrolled |-> FALSE, response |-> None]

\* LogSelectionState before a line was selected.
LogSelectionState_new == [selected_line_num |-> None]

\* TemplateApp::default
TemplateApp_default == [tree |-> <<>>, recent_files |-> <<>>]

\* LogFileReader::open on the file f, the file opened and watched, with the
\* search components as constructed.
Opened(f) ==
    /\ file = f
    /\ line_map = <<>>
    /\ file_size = 0
    /\ load_time_point = NoTime
    /\ load_result = "none"
    /\ file_changed = FALSE
    /\ watcher = Watching
    /\ log_view = NoLogView
    /\ tables = [t \in TableIds |-> LogEntriesTable_new]
    /\ viewer_state = LogViewerState_new
    /\ log_entries_tab = LogEntriesTab_new
    /\ selection_state = LogSelectionState_new
    /\ app = TemplateApp_default
    /\ panicked = FALSE
    /\ now = 0
    /\ filtered_tab = FilteredLogEntriesTab_new
    /\ search_window = SearchWindow_new
    /\ last = Op("open", 0, TRUE, <<>>, None, NoEntry)

\* The reader on its own: no search is open and no associated function called.
Init ==
    /\ \E f \in Files : Opened(f)
    /\ search_ui = "none"
    /\ input = <<>>

\* LogFileReader::load. fault names the step that meets an I/O error; a scan
\* that fails has pushed the first `pushed` line starts.
Load(fault, pushed) ==
    /\ ~panicked
    /\ LET bytes == Bytes(file)
           starts == LineStarts(bytes)
       IN  /\ pushed \in 0..Len(starts)
           /\ fault # "scan" => pushed = 0
           /\ line_map' =
                 CASE fault = "rewind" -> line_map
                   [] fault = "scan" -> SubSeq(starts, 1, pushed)
                   [] fault = "seek" -> starts
                   [] fault = "none" -> load_index(bytes)
           /\ file_size' = IF fault = "none" THEN Len(bytes) ELSE file_size
           /\ load_time_point' = IF fault = "none" THEN SomeTime(now) ELSE load_time_point
           /\ load_result' = IF fault = "none" THEN "ok" ELSE "err"
           /\ file_changed' = IF fault = "none" THEN FALSE ELSE file_changed
           /\ last' = Op("load", 0, fault = "none", <<>>,
                         IF fault = "none" THEN Ok(line_count_of(line_map')) ELSE Err,
                         NoEntry)
    /\ UNCHANGED <<file, panicked, now, uiVars, watcher, log_view, shellVars, input>>

\* A read_line that takes the size of the file as it finds it for file_size.
ReadLine_updating_file_size(line_num, io_ok) ==
    /\ ~panicked
    /\ LET ret == read_line(line_num, io_ok)
       IN  /\ last' = Op("read_line", line_num, io_ok, <<>>, ret, NoEntry)
           /\ panicked' = (ret.tag = "Panic")
    /\ file_size' = Len(Bytes(file))
    /\ UNCHANGED <<file, line_map, load_time_point, load_result, file_changed, now,
                   uiVars, watcher, log_view, shellVars, input>>

\* A call of read_line.
ReadLine(line_num, io_ok) ==
    /\ ~panicked
    /\ LET ret == read_line(line_num, io_ok)
       IN  /\ last' = Op("read_line", line_num, io_ok, <<>>, ret, NoEntry)
           /\ panicked' = (ret.tag = "Panic")
    /\ UNCHANGED <<file, line_map, file_size, load_time_point, load_result, file_changed, now,
                   uiVars, watcher, log_view, shellVars, input>>

\* A call of read_entry.
ReadEntry(line_num, io_ok) ==
    /\ ~panicked
    /\ LET line == read_line(line_num, io_ok)
       IN  /\ last' = Op("read_entry", line_num, io_ok, <<>>,
                         IF line.tag = "Panic" THEN Panic ELSE None,
                         read_entry(line_num, io_ok))
           /\ panicked' = (line.tag = "Panic")
    /\ UNCHANGED <<file, line_map, file_size, load_time_point, load_result, file_changed, now,
                   uiVars, watcher, log_view, shellVars, input>>

\* The logging process appends a chunk to the file.
ExternalAppend(chunk) ==
    /\ Len(file) < MaxChunks
    /\ file' = Append(file, chunk)
    /\ file_changed' = TRUE
    /\ last' = Op("external_append", 0, TRUE, <<>>, None, NoEntry)
    /\ UNCHANGED <<readerVars, now, uiVars, watcher, log_view, shellVars, input>>

\* Another process truncates the file to its first `keep` chunks.
ExternalTruncate(keep) ==
    /\ keep < Len(file)
    /\ file' = SubSeq(file, 1, keep)
    /\ file_changed' = TRUE
    /\ last' = Op("external_truncate", 0, TRUE, <<>>, None, NoEntry)
    /\ UNCHANGED <<readerVars, now, uiVars, watcher, log_view, shellVars, input>>

\* Line numbers a caller asks for. A chunk holds at most one terminator, so
\* MaxChunks is never a valid line number.
LineNumbers == 0..MaxChunks

Next ==
    \/ \E fault \in LoadFaults, pushed \in 0..MaxChunks : Load(fault, pushed)
    \/ \E n \in LineNumbers, io_ok \in BOOLEAN : ReadLine(n, io_ok)
    \/ \E n \in LineNumbers, io_ok \in BOOLEAN : ReadEntry(n, io_ok)
    \/ \E chunk \in FileChunks : ExternalAppend(chunk)
    \/ \E keep \in 0..MaxChunks : ExternalTruncate(keep)

Spec == Init /\ [][Next]_vars

-----------------------------------------------------------------------------
(* Properties of the line index and the line reader, under Spec *)

StrictlyIncreasing(s) == \A i \in 1..(Len(s) - 1) : s[i] < s[i + 1]

TerminatorCount(bytes) == Cardinality({i \in 1..Len(bytes) : bytes[i] = NL})

\* 1 when the file ends in a non-empty fragment that no terminator ends.
TrailingFragment(bytes) == IF bytes # <<>> /\ bytes[Len(bytes)] # NL THEN 1 ELSE 0

IsValidUtf8(bytes) == \A i \in 1..Len(bytes) : bytes[i] # INVALID_BYTE

\* str is bytes decoded as UTF-8 with every invalid byte replaced by U+FFFD.
IsLossyDecoding(str, bytes) ==
    /\ Len(str) = Len(bytes)
    /\ \A i \in 1..Len(bytes) :
          str[i] = IF bytes[i] = INVALID_BYTE THEN REPLACEMENT_CHAR ELSE bytes[i]

\* The UTF-8 bytes of a string: U+FFFD takes three.
RECURSIVE Utf8Encode(_)
Utf8Encode(str) ==
    IF str = <<>> THEN <<>>
    ELSE (IF Head(str) = REPLACEMENT_CHAR THEN <<"xEF", "xBF", "xBD">> ELSE <<Head(str)>>)
         \o Utf8Encode(Tail(str))

\* The valid line numbers of the current index.
ValidLines == {n \in LineNumbers : n < line_count}

C2_LineCount ==
    /\ (last.op = "load" /\ last.val.tag = "Ok") => last.val.num = line_count
    /\ (load_result = "ok" /\ ~file_changed) =>
          /\ line_count = TerminatorCount(Bytes(file)) + TrailingFragment(Bytes(file))
          /\ (Bytes(file) = <<>> => line_map = <<0>> /\ line_count = 0)

\* A load has just counted a terminated line and an unterminated fragment.
C2_Witness ==
    /\ last.op = "load"
    /\ last.val = Ok(2)
    /\ TerminatorCount(Bytes(file)) = 1
    /\ TrailingFragment(Bytes(file)) = 1

C4_NoneOutOfRange ==
    (/\ last.op = "read_line"
     /\ load_result = "ok"
     /\ last.n >= line_count) =>
        last.val = None

\* What read_line returns for every valid line number, in order.
ReadAll == [i \in 1..Cardinality(ValidLines) |-> read_line(i - 1, TRUE)]

RECURSIVE Concat(_)
Concat(reads) ==
    IF reads = <<>> THEN <<>> ELSE Head(reads).str \o Concat(Tail(reads))

RECURSIVE ConcatReinserted(_)
ConcatReinserted(reads) ==
    IF reads = <<>> THEN <<>>
    ELSE Head(reads).str \o <<NL>> \o ConcatReinserted(Tail(reads))

SameUpToTrailingTerminator(a, b) ==
    \/ a = b
    \/ a = Append(b, NL)
    \/ b = Append(a, NL)

\* C5 as stated: after a successful load of an unchanged file, the lines
\* read_line returns, concatenated in order with or without a terminator
\* reinserted after each, give back the bytes of the file, up to one trailing
\* terminator.
C5_RoundTripBytes ==
    (load_result = "ok" /\ ~file_changed) =>
        \/ SameUpToTrailingTerminator(Utf8Encode(Concat(ReadAll)), Bytes(file))
        \/ SameUpToTrailingTerminator(Utf8Encode(ConcatReinserted(ReadAll)), Bytes(file))

\* C5, amended: after a successful load of an unchanged file every
\* read_line(n), n < line_count(), returns a line that carries its own
\* terminator; concatenated in order, with nothing reinserted, the lines are
\* the lossy UTF-8 decoding of the file, and its bytes exactly when the file
\* is valid UTF-8; the line spans are non-empty and tile the file without gap
\* or overlap.
C5_RoundTripLossy ==
    (load_result = "ok" /\ ~file_changed) =>
        /\ \A n \in ValidLines : read_line(n, TRUE).tag = "Some"
        /\ IsLossyDecoding(Concat(ReadAll), Bytes(file))
        /\ (IsValidUtf8(Bytes(file)) => Utf8Encode(Concat(ReadAll)) = Bytes(file))
        /\ \A n \in ValidLines :
              /\ line_start_offset(n) < line_end_offset(n)
              /\ (n = 0 => line_start_offset(n) = 0)
              /\ (n + 1 < line_count => line_end_offset(n) = line_start_offset(n + 1))
              /\ (n + 1 = line_count => line_end_offset(n) = Len(Bytes(file)))

\* The second line of an unchanged, valid UTF-8 file of two lines has been read.
C5_Witness ==
    /\ last.op = "read_line"
    /\ last.n = 1
    /\ last.val.tag = "Some"
    /\ load_result = "ok"
    /\ ~file_changed
    /\ line_count = 2
    /\ IsValidUtf8(Bytes(file))

\* C7: read_entry(n) is read_line(n) followed by parse_logline and never an
\* error of its own; a line that is not JSON or has no "t" is still indexed
\* and readable while read_entry yields None. A file of an entry line and a
\* line {} has two lines, read_entry(0) has the entry's timestamp and
\* read_entry(1) is None.
C7_ReadEntry ==
    /\ last.op = "read_entry" =>
          LET line == read_line(last.n, last.io_ok)
          IN  /\ last.entry = IF line.tag = "Some" THEN parse_logline(line.str) ELSE NoEntry
              /\ last.val.tag = (IF line.tag = "Panic" THEN "Panic" ELSE "None")
    /\ (load_result = "ok" /\ ~file_changed /\ file = <<ChunkEntry, ChunkObject>>) =>
          /\ line_count = 2
          /\ read_entry(0, TRUE).tag = "Some"
          /\ read_entry(0, TRUE).timestamp = <<REPLACEMENT_CHAR>>
          /\ read_entry(1, TRUE) = NoEntry
          /\ read_line(1, TRUE) = SomeStr(<<"{", "}">>)
    /\ (load_result = "ok" /\ ~file_changed /\ file = <<ChunkObject, ChunkObject>>) =>
          /\ line_count = 1
          /\ read_entry(0, TRUE) = NoEntry
          /\ read_line(0, TRUE) = SomeStr(<<"{", "}", "{", "}">>)

\* read_entry(1) has returned None for the line {} that follows an entry.
C7_Witness ==
    /\ last.op = "read_entry"
    /\ last.n = 1
    /\ last.io_ok
    /\ last.entry = NoEntry
    /\ load_result = "ok"
    /\ ~file_changed
    /\ file = <<ChunkEntry, ChunkObject>>

-----------------------------------------------------------------------------
(* parse_logline on its own, under SpecParse *)

\* The pieces lines are spelled from: braces, the string "t", a colon, a
\* number, a comma and the line terminator.
JsonTokens == {<<"{">>, <<"}">>, <<QUOTE, "t", QUOTE>>, <<":">>, <<"1">>, <<",">>, <<NL>>}

\* Lines that take more tokens than MaxTokens: an entry with a second field, an
\* entry whose "t" is given twice, an object whose only string is not "t", an
\* entry inside an array, padded input and text that is not JSON.
LineEntryWithMessage ==
    <<"{", QUOTE, "t", QUOTE, ":", QUOTE, "2", "0", "2", "4", QUOTE, ",", " ",
      QUOTE, "m", QUOTE, ":", "1", "}", NL>>
LineTimestampTwice ==
    <<"{", QUOTE, "t", QUOTE, ":", "1", ",", QUOTE, "t", QUOTE, ":", QUOTE, "2", QUOTE, "}">>
LineMessageOnly == <<"{", QUOTE, "m", QUOTE, ":", QUOTE, "t", QUOTE, "}", NL>>
LineEntryInArray == <<"[", "{", QUOTE, "t", QUOTE, ":", QUOTE, "t", QUOTE, "}", "]", NL>>
LineNestedTimestamp ==
    <<"{", QUOTE, "m", QUOTE, ":", "{", QUOTE, "t", QUOTE, ":", QUOTE, "t", QUOTE, "}", "}">>
LineNotJson == <<"n", "o", "t", " ", "j", "s", "o", "n">>
LineNull == <<"n", "u", "l", "l", NL>>

ParseLines ==
    {Flatten(tokens) : tokens \in SeqsUpTo(JsonTokens, MaxTokens)}
        \cup {LineEntryWithMessage, LineTimestampTwice, LineMessageOnly, LineEntryInArray,
              LineNestedTimestamp, LineNotJson, LineNull}

InitParse ==
    /\ Opened(<<>>)
    /\ search_ui = "none"
    /\ input \in ParseLines

\* A call of the associated function parse_logline on the line `input`.
ParseLogline ==
    /\ last' = Op("parse_logline", 0, TRUE, input, None, parse_logline(input))
    /\ UNCHANGED <<file, readerVars, file_changed, now, uiVars, watcher, log_view, shellVars, input>>

NextParse == ParseLogline

SpecParse == InitParse /\ [][NextParse]_vars

\* The object has a member "t" whose value is a string.
HasStringTimestamp(node) ==
    \E k \in 1..Len(node.members) :
        node.members[k].key = <<"t">> /\ node.members[k].value.kind = "string"

\* C6: parse_logline(line) is None for every line that is not a syntactically
\* valid JSON object and for every valid object without a string-valued "t";
\* otherwise it is a LogEntry whose timestamp is the value of "t" and whose
\* object retains all fields.
C6_ParseLogline ==
    last.op = "parse_logline" =>
        LET value == json_parse(last.arg)
        IN  IF value.ok /\ value.node.kind = "object" /\ HasStringTimestamp(value.node)
            THEN /\ last.entry.tag = "Some"
                 /\ last.entry.object = value.node
                 /\ \E k \in 1..Len(value.node.members) :
                       /\ value.node.members[k].key = <<"t">>
                       /\ value.node.members[k].value.text = last.entry.timestamp
                 /\ (last.arg = LineEntryWithMessage =>
                        /\ last.entry.timestamp = <<"2", "0", "2", "4">>
                        /\ Len(last.entry.object.members) = 2)
                 /\ (last.arg = LineTimestampTwice => last.entry.timestamp = <<"2">>)
            ELSE /\ last.entry = NoEntry
                 /\ last.arg \notin {LineEntryWithMessage, LineTimestampTwice}

\* parse_logline has returned an entry with two fields.
C6_Witness ==
    /\ last.op = "parse_logline"
    /\ last.arg = LineEntryWithMessage
    /\ last.entry.tag = "Some"
    /\ Len(last.entry.object.members) = 2

-----------------------------------------------------------------------------
(* The search: regex::escape, RegexMatcherBuilder and grep's Searcher, on the *)
(* patterns this model spells: letters, the dot and the opening parenthesis.  *)

\* Lines of the files that are searched.
LineHelloCapital == <<"H", "e", "l", "l", "o", NL>>
LineHellos == <<"h", "e", "l", "l", "o", "s", NL>>
LineDotted == <<"(", "h", ".", "l", "l", "o", ")", NL>>
LineEmpty == <<NL>>
LineHelloTail == <<"h", "e", "l", "l", "o">>
SearchChunks == {LineHelloCapital, LineHellos, LineDotted, LineEmpty, LineHelloTail}

\* Search texts a user types.
TermEmpty == <<>>
TermHello == <<"h", "e", "l", "l", "o">>
TermHelloCapital == <<"H", "e", "l", "l", "o">>
TermDotted == <<"h", ".", "l", "l", "o">>
TermParen == <<"(">>
TermDot == <<".">>
SearchTerms == {TermEmpty, TermHello, TermHelloCapital, TermDotted, TermParen, TermDot}

AllSearchOptions == [case_sensitive : BOOLEAN, whole_word : BOOLEAN, regex : BOOLEAN]

\* The characters regex::escape puts a backslash before.
RegexMeta == {"\\", ".", "(", ")"}

\* Characters \w matches.
WordChars == {"h", "e", "l", "o", "s", "H"}

\* A regex::escape that escapes nothing.
regex_escape_nothing(text) == text

\* regex::escape
RECURSIVE regex_escape(_)
regex_escape(text) ==
    IF text = <<>> THEN <<>>
    ELSE (IF Head(text) \in RegexMeta THEN <<"\\", Head(text)>> ELSE <<Head(text)>>)
         \o regex_escape(Tail(text))

\* One element of a compiled pattern: a literal character or the dot.
Literal(c) == [any |-> FALSE, ch |-> c]
AnyChar == [any |-> TRUE, ch |-> "."]

Compiled(atoms) == [ok |-> TRUE, atoms |-> atoms]
CompileError == [ok |-> FALSE, atoms |-> <<>>]

\* A build that takes a parenthesis on its own as a literal character.
RECURSIVE regex_build_lenient(_, _, _)
regex_build_lenient(pattern, i, atoms) ==
    IF i > Len(pattern) THEN Compiled(atoms)
    ELSE IF pattern[i] = "\\" THEN
        IF i + 1 <= Len(pattern) /\ pattern[i + 1] \in RegexMeta
        THEN regex_build_lenient(pattern, i + 2, Append(atoms, Literal(pattern[i + 1])))
        ELSE CompileError
    ELSE IF pattern[i] = "." THEN regex_build_lenient(pattern, i + 1, Append(atoms, AnyChar))
    ELSE regex_build_lenient(pattern, i + 1, Append(atoms, Literal(pattern[i])))

\* RegexMatcherBuilder::build from position i of the pattern. A backslash
\* makes the metacharacter after it a literal; a parenthesis on its own is a
\* group that is never closed or never opened.
RECURSIVE regex_build(_, _, _)
regex_build(pattern, i, atoms) ==
    IF i > Len(pattern) THEN Compiled(atoms)
    ELSE IF pattern[i] = "\\" THEN
        IF i + 1 <= Len(pattern) /\ pattern[i + 1] \in RegexMeta
        THEN regex_build(pattern, i + 2, Append(atoms, Literal(pattern[i + 1])))
        ELSE CompileError
    ELSE IF pattern[i] \in {"(", ")"} THEN CompileError
    ELSE IF pattern[i] = "." THEN regex_build(pattern, i + 1, Append(atoms, AnyChar))
    ELSE regex_build(pattern, i + 1, Append(atoms, Literal(pattern[i])))

to_lower(c) == IF c = "H" THEN "h" ELSE c

atom_matches(atom, c, case_insensitive) ==
    IF atom.any THEN c # NL
    ELSE IF case_insensitive THEN to_lower(atom.ch) = to_lower(c)
    ELSE atom.ch = c

\* The pattern matches the characters of the line that follow its first pos
\* characters; with word(true), no word character is next to the match.
matches_at(atoms, line, pos, options) ==
    /\ pos + Len(atoms) <= Len(line)
    /\ \A k \in 1..Len(atoms) : atom_matches(atoms[k], line[pos + k], ~options.case_sensitive)
    /\ options.whole_word =>
          /\ pos = 0 \/ line[pos] \notin WordChars
          /\ pos + Len(atoms) = Len(line) \/ line[pos + Len(atoms) + 1] \notin WordChars

\* Matcher::find on one line without its terminator.
line_matches(atoms, line, options) ==
    \E pos \in 0..Len(line) : matches_at(atoms, line, pos, options)

\* The bytes of the line from start to end without its terminator.
line_content(bytes, start, end) ==
    IF end > start /\ bytes[end] = NL
    THEN SubSeq(bytes, start + 1, end - 1)
    ELSE SubSeq(bytes, start + 1, end)

\* Searcher::search_file with the Lossy sink of search: the line at offset pos
\* has the 1-based number line_num, and a line that matches pushes line_num - 1.
RECURSIVE search_file(_, _, _, _, _, _)
search_file(atoms, options, bytes, pos, line_num, matches) ==
    IF pos >= Len(bytes) THEN matches
    ELSE LET end == LineEnd(bytes, pos)
         IN  search_file(atoms, options, bytes, end, line_num + 1,
                         IF line_matches(atoms, line_content(bytes, pos, end), options)
                         THEN Append(matches, line_num - 1)
                         ELSE matches)

\* FilteredLogEntriesTab::search on the file as it is when the call is made.
\* io_ok: File::open and the reads meet no I/O error.
search(options, bytes, io_ok, search_text) ==
    LET pattern == IF ~options.regex THEN regex_escape(search_text) ELSE search_text
        matcher == regex_build(pattern, 1, <<>>)
    IN  IF ~matcher.ok THEN SearchErr("GrepError")
        ELSE IF ~io_ok THEN SearchErr("IoError")
        ELSE SearchOk(search_file(matcher.atoms, options, bytes, 0, 1, <<>>))

\* SearchWindow::search: the same search, an error becoming None.
SearchWindow_search(options, bytes, io_ok, search_text) ==
    LET pattern == IF ~options.regex THEN regex_escape(search_text) ELSE search_text
        matcher == regex_build(pattern, 1, <<>>)
    IN  IF ~matcher.ok THEN None
        ELSE IF ~io_ok THEN None
        ELSE SomeLines(search_file(matcher.atoms, options, bytes, 0, 1, <<>>))

-----------------------------------------------------------------------------
(* search on its own, under SpecSearch *)

SearchFiles == SeqsUpTo(SearchChunks, MaxSearchLines)

InitSearch ==
    /\ \E f \in SearchFiles : Opened(f)
    /\ search_ui = "none"
    /\ input \in [options : AllSearchOptions, search_text : SearchTerms]

\* A call of the associated function search with the arguments `input` on the
\* file.
Search(io_ok) ==
    /\ last' = Op("search", 0, io_ok, input.search_text,
                  search(input.options, Bytes(file), io_ok, input.search_text), NoEntry)
    /\ UNCHANGED <<file, readerVars, file_changed, now, uiVars, watcher, log_view, shellVars, input>>

NextSearch == \E io_ok \in BOOLEAN : Search(io_ok)

SpecSearch == InitSearch /\ [][NextSearch]_vars

\* The lines of a file without their terminators, in order: `line` holds the
\* characters read since the last terminator.
RECURSIVE SplitLines(_, _)
SplitLines(bytes, line) ==
    IF bytes = <<>> THEN (IF line = <<>> THEN <<>> ELSE <<line>>)
    ELSE IF Head(bytes) = NL THEN <<line>> \o SplitLines(Tail(bytes), <<>>)
    ELSE SplitLines(Tail(bytes), Append(line, Head(bytes)))

SameCharacter(a, b, case_sensitive) ==
    a = b \/ (~case_sensitive /\ {a, b} = {"h", "H"})

\* The text occurs in the line under the options: character for character,
\* a dot standing for any character when the text is a regular expression, and
\* as a whole word when the options ask for it.
Occurs(text, line, options) ==
    \E pos \in 0..(Len(line) - Len(text)) :
        /\ \A k \in 1..Len(text) :
              \/ options.regex /\ text[k] = "."
              \/ SameCharacter(text[k], line[pos + k], options.case_sensitive)
        /\ options.whole_word =>
              /\ pos = 0 \/ line[pos] \notin WordChars
              /\ pos + Len(text) = Len(line) \/ line[pos + Len(text) + 1] \notin WordChars

\* C10: search returns exactly the zero-based numbers of the lines that match
\* the query under its options, in ascending order; the text is matched
\* literally when regex is off and without regard to case when case_sensitive
\* is off. The text hello with all options off, on a file of three lines whose
\* lines 0 and 2 hold Hello and hello, gives [0, 2].
C10_Search ==
    last.op = "search" =>
        LET lines == SplitLines(Bytes(file), <<>>)
            text == input.search_text
            options == input.options
            compiles == ~options.regex \/ \A k \in 1..Len(text) : text[k] # "("
        IN  /\ (last.io_ok /\ compiles) => last.val.tag = "Ok"
            /\ last.val.tag = "Ok" =>
                  /\ StrictlyIncreasing(last.val.lines)
                  /\ {last.val.lines[i] : i \in 1..Len(last.val.lines)}
                        = {n \in 0..(Len(lines) - 1) : Occurs(text, lines[n + 1], options)}
            /\ (/\ file = <<LineHelloCapital, LineEmpty, LineHellos>>
                /\ text = TermHello
                /\ options = SearchOptions_default
                /\ last.io_ok) => last.val = SearchOk(<<0, 2>>)

\* search has returned [0, 2] for hello on the file of the three lines.
C10_Witness ==
    /\ last.op = "search"
    /\ file = <<LineHelloCapital, LineEmpty, LineHellos>>
    /\ input.search_text = TermHello
    /\ input.options = SearchOptions_default
    /\ last.val = SearchOk(<<0, 2>>)

\* The text, taken as a regular expression, has a group that is never closed
\* or never opened.
UnbalancedGroup(text) == \E k \in 1..Len(text) : text[k] \in {"(", ")"}

\* C11: with regex on, a search for a text that does not compile returns the
\* pattern-compilation error GrepError and never a successful result, also
\* when the file could not be opened; a search whose pattern compiles and
\* whose file cannot be opened or read returns IoError, a different variant;
\* with regex off no text gives GrepError, and a search returns Ok exactly
\* when the pattern compiles and the I/O meets no error.
C11_SearchErrors ==
    last.op = "search" =>
        LET text == input.search_text
            options == input.options
            compiles == ~(options.regex /\ UnbalancedGroup(text))
        IN  /\ ~compiles => last.val = SearchErr("GrepError")
            /\ (compiles /\ ~last.io_ok) => last.val = SearchErr("IoError")
            /\ ~options.regex => last.val.tag # "GrepError"
            /\ last.val.tag = "Ok" <=> (compiles /\ last.io_ok)
            /\ last.val.tag \in {"Ok", "GrepError", "IoError"}

\* A search for ( as a regular expression has returned GrepError on a file
\* that holds lines, and the same text would be found with regex off.
C11_Witness ==
    /\ last.op = "search"
    /\ input.search_text = TermParen
    /\ input.options.regex
    /\ last.val = SearchErr("GrepError")
    /\ file = <<LineDotted>>
    /\ search([input.options EXCEPT !.regex = FALSE], Bytes(file), TRUE, TermParen)
          = SearchOk(<<0>>)

-----------------------------------------------------------------------------
(* FilteredLogEntriesTab and SearchWindow, under SpecSearchUi *)

OptionNames == {"case_sensitive", "whole_word", "regex"}

\* A click on the selectable label of an option.
toggle(options, name) == [options EXCEPT ![name] = ~options[name]]

\* An execute_search that adds the new matches to the ones it holds.
execute_search_appending(tab, bytes, io_ok, time) ==
    LET started == [tab EXCEPT !.search_term = tab.editable_search_term,
                               !.last_search_time = SomeTime(time)]
        result == search(started.search_options, bytes, io_ok, started.search_term)
    IN  IF started.search_term = <<>> THEN [started EXCEPT !.search_results = <<>>]
        ELSE IF result.tag = "Ok"
        THEN [started EXCEPT !.search_results = tab.search_results \o result.lines]
        ELSE started

\* An execute_search that records its time only when the search succeeded.
execute_search_untimed_failure(tab, bytes, io_ok, time) ==
    LET started == [tab EXCEPT !.search_term = tab.editable_search_term]
        result == search(started.search_options, bytes, io_ok, started.search_term)
    IN  IF started.search_term = <<>>
        THEN [started EXCEPT !.search_results = <<>>, !.last_search_time = SomeTime(time)]
        ELSE IF result.tag = "Ok"
        THEN [started EXCEPT !.search_results = result.lines,
                             !.last_search_time = SomeTime(time)]
        ELSE started

\* FilteredLogEntriesTab::execute_search at the time `time`, on the file as it
\* is then.
execute_search(tab, bytes, io_ok, time) ==
    LET started == [tab EXCEPT !.search_term = tab.editable_search_term,
                               !.last_search_time = SomeTime(time)]
        result == search(started.search_options, bytes, io_ok, started.search_term)
    IN  IF started.search_term = <<>> THEN [started EXCEPT !.search_results = <<>>]
        ELSE IF result.tag = "Ok" THEN [started EXCEPT !.search_results = result.lines]
        ELSE started

\* The user edits the search text of the tab.
TabEditSearchTerm(text) ==
    /\ search_ui = "FilteredLogEntriesTab"
    /\ filtered_tab' = [filtered_tab EXCEPT !.editable_search_term = text]
    /\ last' = Op("edit_search_term", 0, TRUE, <<>>, None, NoEntry)
    /\ UNCHANGED <<file, readerVars, file_changed, now, search_window, search_ui, watcher, log_view, shellVars, input>>

\* The user clicks Case, Word or Regex in the tab.
TabToggleOption(name) ==
    /\ search_ui = "FilteredLogEntriesTab"
    /\ filtered_tab' = [filtered_tab EXCEPT !.search_options = toggle(@, name)]
    /\ last' = Op("toggle_option", 0, TRUE, <<>>, None, NoEntry)
    /\ UNCHANGED <<file, readerVars, file_changed, now, search_window, search_ui, watcher, log_view, shellVars, input>>

\* A call of execute_search: Enter in the search text, the Search button, or
\* the repeated search of ui.
TabExecuteSearch(io_ok) ==
    /\ search_ui = "FilteredLogEntriesTab"
    /\ filtered_tab' = execute_search(filtered_tab, Bytes(file), io_ok, now)
    /\ last' = Op("execute_search", 0, io_ok, filtered_tab.editable_search_term,
                  IF filtered_tab.editable_search_term = <<>> THEN None
                  ELSE search(filtered_tab.search_options, Bytes(file), io_ok,
                              filtered_tab.editable_search_term),
                  NoEntry)
    /\ UNCHANGED <<file, readerVars, file_changed, now, search_window, search_ui, watcher, log_view, shellVars, input>>

\* SearchWindow::has_previous_result
has_previous_result(window) ==
    IF window.selected_search_result_row.tag = "Some"
    THEN Len(window.search_results) > 0 /\ window.selected_search_result_row.num > 0
    ELSE FALSE

\* A has_next_result that counts the last result as having a next one.
has_next_result_inclusive(window) ==
    IF window.selected_search_result_row.tag = "Some"
    THEN window.selected_search_result_row.num < Len(window.search_results)
    ELSE FALSE

\* SearchWindow::has_next_result
has_next_result(window) ==
    IF window.selected_search_result_row.tag = "Some"
    THEN window.selected_search_result_row.num < Len(window.search_results) - 1
    ELSE FALSE

\* What the user does in one frame of the window: nothing, an edit of the
\* search text, Enter in it, a click on an option, on Search, Open Results,
\* Close, Previous Result, Next Result or the close button of the title bar.
WindowEvents ==
    {"none", "edit", "enter", "search", "open_results", "close", "previous", "next",
     "close_window"} \cup OptionNames

\* The widget of the event is shown and enabled.
event_enabled(window, event) ==
    \/ event = "none"
    \/ /\ window.is_open
       /\ event = "open_results" => Len(window.search_results) > 0
       /\ event = "previous" => window.search_results # <<>> /\ has_previous_result(window)
       /\ event = "next" => window.search_results # <<>> /\ has_next_result(window)

\* A show whose failed search empties the results and the selection.
show_clearing_on_failure(window, event, text, bytes, io_ok) ==
    LET reset == [window EXCEPT !.selection_changed = FALSE, !.wants_open_results = FALSE]
        trigger_search == event \in {"enter", "search"}
        is_open == window.is_open /\ event # "close_window"
        drawn ==
            CASE event = "edit" -> [reset EXCEPT !.search_text = text]
              [] event \in OptionNames -> [reset EXCEPT !.search_options = toggle(@, event)]
              [] event = "open_results" ->
                    [reset EXCEPT !.wants_open_results = TRUE, !.is_open = FALSE]
              [] event = "close" -> [reset EXCEPT !.is_open = FALSE]
              [] event = "previous" ->
                    [reset EXCEPT !.selected_search_result_row = SomeNum(@.num - 1),
                                  !.selection_changed = TRUE]
              [] event = "next" ->
                    [reset EXCEPT !.selected_search_result_row = SomeNum(@.num + 1),
                                  !.selection_changed = TRUE]
              [] OTHER -> reset
        closed == [drawn EXCEPT !.is_open = drawn.is_open /\ is_open]
        result == SearchWindow_search(closed.search_options, bytes, io_ok, closed.search_text)
        lines == IF result.tag = "Some" THEN result.lines ELSE <<>>
    IN  IF trigger_search
        THEN [closed EXCEPT !.search_results = lines,
                            !.selected_search_result_row =
                                IF lines = <<>> THEN None ELSE SomeNum(0),
                            !.selection_changed = TRUE]
        ELSE closed

\* SearchWindow::show for a frame with the event, on the file as it is then.
show(window, event, text, bytes, io_ok) ==
    LET reset == [window EXCEPT !.selection_changed = FALSE, !.wants_open_results = FALSE]
        trigger_search == event \in {"enter", "search"}
        is_open == window.is_open /\ event # "close_window"
        drawn ==
            CASE event = "edit" -> [reset EXCEPT !.search_text = text]
              [] event \in OptionNames -> [reset EXCEPT !.search_options = toggle(@, event)]
              [] event = "open_results" ->
                    [reset EXCEPT !.wants_open_results = TRUE, !.is_open = FALSE]
              [] event = "close" -> [reset EXCEPT !.is_open = FALSE]
              [] event = "previous" ->
                    [reset EXCEPT !.selected_search_result_row = SomeNum(@.num - 1),
                                  !.selection_changed = TRUE]
              [] event = "next" ->
                    [reset EXCEPT !.selected_search_result_row = SomeNum(@.num + 1),
                                  !.selection_changed = TRUE]
              [] OTHER -> reset
        closed == [drawn EXCEPT !.is_open = drawn.is_open /\ is_open]
        result == SearchWindow_search(closed.search_options, bytes, io_ok, closed.search_text)
    IN  IF trigger_search /\ result.tag = "Some"
        THEN [closed EXCEPT !.search_results = result.lines,
                            !.selected_search_result_row =
                                IF result.lines = <<>> THEN None ELSE SomeNum(0),
                            !.selection_changed = TRUE]
        ELSE closed

\* SearchWindow::open
WindowOpen ==
    /\ search_ui = "SearchWindow"
    /\ search_window' = [search_window EXCEPT !.is_open = TRUE]
    /\ last' = Op("open_search_window", 0, TRUE, <<>>, None, NoEntry)
    /\ UNCHANGED <<file, readerVars, file_changed, now, filtered_tab, search_ui, watcher, log_view, shellVars, input>>

\* A frame: SearchWindow::show.
Show(event, text, io_ok) ==
    /\ search_ui = "SearchWindow"
    /\ event_enabled(search_window, event)
    /\ event # "edit" => text = <<>>
    /\ event \notin {"enter", "search"} => io_ok
    /\ search_window' = show(search_window, event, text, Bytes(file), io_ok)
    /\ last' = Op("show", 0, io_ok, <<>>,
                  IF event \in {"enter", "search"}
                  THEN SearchWindow_search(search_window.search_options, Bytes(file), io_ok,
                                           search_window.search_text)
                  ELSE None,
                  NoEntry)
    /\ UNCHANGED <<file, readerVars, file_changed, now, filtered_tab, search_ui, watcher, log_view, shellVars, input>>

\* SearchWindow::selected_search_result_line
selected_search_result_line(window) ==
    IF window.selected_search_result_row.tag # "Some" THEN None
    ELSE IF window.selected_search_result_row.num + 1 > Len(window.search_results) THEN None
    ELSE SomeNum(window.search_results[window.selected_search_result_row.num + 1])

\* The lines written to the file and the texts typed while a view is open.
UiChunks == {LineHelloCapital, LineDotted, LineEmpty}
UiTerms == {TermEmpty, TermHello, TermParen}

\* A view searches through a FilteredLogEntriesTab or through a SearchWindow.
InitSearchUi ==
    /\ \E f \in SeqsUpTo(UiChunks, MaxChunks) : Opened(f)
    /\ search_ui \in {"FilteredLogEntriesTab", "SearchWindow"}
    /\ input = <<>>

NextSearchUi ==
    \/ \E text \in UiTerms : TabEditSearchTerm(text)
    \/ \E name \in OptionNames : TabToggleOption(name)
    \/ \E io_ok \in BOOLEAN : TabExecuteSearch(io_ok)
    \/ WindowOpen
    \/ \E event \in WindowEvents, text \in UiTerms, io_ok \in BOOLEAN :
          Show(event, text, io_ok)
    \/ \E chunk \in UiChunks : ExternalAppend(chunk)
    \/ \E keep \in 0..MaxChunks : ExternalTruncate(keep)

SpecSearchUi == InitSearchUi /\ [][NextSearchUi]_vars

\* C8: the search results of the FilteredLogEntriesTab and of the SearchWindow
\* are strictly ascending, hence free of duplicates, after any sequence of
\* searches that succeed, fail or have an empty term.
C8_ResultsAscending ==
    /\ StrictlyIncreasing(filtered_tab.search_results)
    /\ StrictlyIncreasing(search_window.search_results)

\* A search of the tab has failed and left two earlier results in place.
C8_Witness ==
    /\ last.op = "execute_search"
    /\ last.val.tag = "GrepError"
    /\ Len(filtered_tab.search_results) = 2

\* C12: a search that fails with a pattern-compilation or an I/O error leaves
\* the stored results as they were: in every state the view reaches, an
\* execute_search of the tab that fails returns with the search_results it was
\* called with, and a frame of the SearchWindow whose search fails leaves
\* search_results and the selected result row as they were and ends with
\* selection_changed false.
C12_FailedSearchKeepsResults ==
    /\ \A io_ok \in BOOLEAN :
          LET term == filtered_tab.editable_search_term
              result == search(filtered_tab.search_options, Bytes(file), io_ok, term)
          IN  (term # <<>> /\ result.tag \in {"GrepError", "IoError"}) =>
                  execute_search(filtered_tab, Bytes(file), io_ok, now).search_results
                      = filtered_tab.search_results
    /\ \A event \in {"enter", "search"}, io_ok \in BOOLEAN :
          LET result == SearchWindow_search(search_window.search_options, Bytes(file), io_ok,
                                            search_window.search_text)
              shown == show(search_window, event, <<>>, Bytes(file), io_ok)
          IN  (event_enabled(search_window, event) /\ result = None) =>
                  /\ shown.search_results = search_window.search_results
                  /\ shown.selected_search_result_row
                        = search_window.selected_search_result_row
                  /\ ~shown.selection_changed

\* A search of the window has met an I/O error while the second of two earlier
\* results was selected, and both results and the selection are in place.
C12_Witness ==
    /\ last.op = "show"
    /\ ~last.io_ok
    /\ last.val = None
    /\ Len(search_window.search_results) = 2
    /\ search_window.selected_search_result_row = SomeNum(1)
    /\ ~search_window.selection_changed

\* A label of the search widgets: its wording and the numbers it shows.
Label(text, row, count) == [text |-> text, row |-> row, count |-> count]
NoLabel == Label("", 0, 0)

\* FilteredLogEntriesTab::ui_search, the label next to the Search button.
ui_search_label(tab) ==
    IF tab.search_term # <<>>
    THEN IF tab.search_results = <<>>
         THEN Label("No results", 0, 0)
         ELSE Label("{} results", 0, Len(tab.search_results))
    ELSE NoLabel

\* SearchWindow::show, the label under the buttons of an open window.
show_label(window) ==
    IF ~window.is_open THEN NoLabel
    ELSE IF window.search_results # <<>>
    THEN Label("{} of {} results",
               (IF window.selected_search_result_row.tag = "Some"
                THEN window.selected_search_result_row.num ELSE 0) + 1,
               Len(window.search_results))
    ELSE Label("No results.", 0, 0)

\* C13: what the user sees after a search tells a search that failed from one
\* that found nothing: after a failed search of the tab the label for the new
\* term is neither "No results" nor a count of results, and after a failed
\* search of the window the label is neither "No results." nor a count.
C13_FailedSearchDisplayed ==
    /\ (last.op = "execute_search" /\ last.val.tag \in {"GrepError", "IoError"}) =>
          /\ filtered_tab.search_term = last.arg
          /\ ui_search_label(filtered_tab).text \notin {"No results", "{} results"}
    /\ (last.op = "show" /\ ~last.io_ok /\ search_window.is_open) =>
          show_label(search_window).text \notin {"No results.", "{} of {} results"}


\* The SearchWindow on its own, under SpecWindow: its frames while the file
\* grows by lines that the search for hello finds.
WindowChunks == {LineHelloCapital}
WindowTerms == {TermEmpty, TermHello, TermParen}

InitWindow ==
    /\ \E f \in SeqsUpTo(WindowChunks, MaxChunks) : Opened(f)
    /\ search_ui = "SearchWindow"
    /\ input = <<>>

NextWindow ==
    \/ WindowOpen
    \/ \E event \in WindowEvents, text \in WindowTerms, io_ok \in BOOLEAN :
          Show(event, text, io_ok)
    \/ \E chunk \in WindowChunks : ExternalAppend(chunk)

SpecWindow == InitWindow /\ [][NextWindow]_vars

\* The selected row of the window is a row of its results.
RowSelectsResult(window) ==
    IF window.search_results = <<>> THEN window.selected_search_result_row = None
    ELSE /\ window.selected_search_result_row.tag = "Some"
         /\ window.selected_search_result_row.num < Len(window.search_results)
         /\ selected_search_result_line(window) # None

\* C29: in SearchWindow, after any frames, selected_search_result_row is None
\* exactly when search_results is empty and is otherwise an index below
\* search_results.len(), so that selected_search_result_line is a result; a
\* successful search sets it to Some(0), or None for no results, and
\* selection_changed is raised after exactly the frames in which a search
\* succeeded or Previous or Next moved the selection; Previous and Next are
\* enabled only if the row they move to exists.
C29_SelectedRowInRange ==
    /\ RowSelectsResult(search_window)
    /\ [][/\ RowSelectsResult(search_window')
          /\ (event_enabled(search_window, "previous") /\ search_window.is_open) =>
                search_window.selected_search_result_row.num >= 1
          /\ (event_enabled(search_window, "next") /\ search_window.is_open) =>
                search_window.selected_search_result_row.num + 1 < Len(search_window.search_results)
          /\ last'.op = "show" =>
                /\ last'.val.tag = "Some" =>
                      /\ search_window'.search_results = last'.val.lines
                      /\ search_window'.selected_search_result_row =
                            IF last'.val.lines = <<>> THEN None ELSE SomeNum(0)
                /\ search_window'.selection_changed <=>
                      \/ last'.val.tag = "Some"
                      \/ search_window'.selected_search_result_row
                            # search_window.selected_search_result_row]_vars

\* Next Result moved the selection to the last of two results, where it has a
\* previous and no next result.
C29_Witness ==
    /\ last.op = "show"
    /\ last.val = None
    /\ search_window.selection_changed
    /\ Len(search_window.search_results) = 2
    /\ search_window.selected_search_result_row = SomeNum(1)
    /\ has_previous_result(search_window)
    /\ ~has_next_result(search_window)
-----------------------------------------------------------------------------
(* LogEntriesTable: rows and lines, under SpecMap *)

\* The elements of a set of numbers in ascending order.
RECURSIVE Ascending(_)
Ascending(S) ==
    IF S = {} THEN <<>>
    ELSE LET least == CHOOSE x \in S : \A y \in S : x <= y
         IN  <<least>> \o Ascending(S \ {least})

\* The filtered entries a table is drawn with: none, or the search results of
\* a tab.
FilteredEntries == {None} \cup {SomeLines(Ascending(S)) : S \in SUBSET (0..MaxLineNum)}

\* [T]::binary_search between left and right: Ok(index) or Err.
RECURSIVE binary_search(_, _, _, _)
binary_search(lines, x, left, right) ==
    IF left >= right THEN Err
    ELSE LET mid == left + ((right - left) \div 2)
         IN  IF lines[mid + 1] < x THEN binary_search(lines, x, mid + 1, right)
             ELSE IF lines[mid + 1] > x THEN binary_search(lines, x, left, mid)
             ELSE Ok(mid)

\* A find_row_for_line that takes the line number for the row.
find_row_for_line_unfiltered(line_number, filtered_entries) == SomeNum(line_number)

\* LogEntriesTable::find_row_for_line
find_row_for_line(line_number, filtered_entries) ==
    IF filtered_entries.tag = "Some"
    THEN LET found == binary_search(filtered_entries.lines, line_number, 0,
                                    Len(filtered_entries.lines))
         IN  IF found.tag = "Ok" THEN SomeNum(found.num) ELSE None
    ELSE SomeNum(line_number)

\* The number of rows LogEntriesTable::ui draws.
total_rows(filtered_entries) ==
    IF filtered_entries.tag = "Some" THEN Len(filtered_entries.lines) ELSE line_count

\* The line number of a row in the body of the table.
line_for_row(row_idx, filtered_entries) ==
    IF filtered_entries.tag = "Some" THEN filtered_entries.lines[row_idx + 1] ELSE row_idx

\* The table counts the lines of the file and does not read them: files of
\* empty lines.
InitMap ==
    /\ \E f \in SeqsUpTo({ChunkNewline}, MaxChunks) : Opened(f)
    /\ search_ui = "none"
    /\ input \in FilteredEntries

\* A call of find_row_for_line with the filtered entries `input`.
FindRowForLine(line_number) ==
    /\ ~panicked
    /\ last' = Op("find_row_for_line", line_number, TRUE, <<>>,
                  find_row_for_line(line_number, input), NoEntry)
    /\ UNCHANGED <<file, readerVars, file_changed, now, uiVars, watcher, log_view, shellVars, input>>

\* The table draws the row row_idx. Without filtered entries the rows are
\* counted by line_count(), which on a reader that holds no index panics in a
\* build with overflow checks and wraps in one without.
TableRow(row_idx, overflow_checks) ==
    /\ ~panicked
    /\ IF input.tag = "None" /\ Len(line_map) = 0 /\ overflow_checks
       THEN /\ panicked' = TRUE
            /\ last' = Op("table_row", row_idx, TRUE, <<>>, Panic, NoEntry)
       ELSE /\ row_idx < total_rows(input)
            /\ panicked' = FALSE
            /\ last' = Op("table_row", row_idx, TRUE, <<>>,
                          SomeNum(line_for_row(row_idx, input)), NoEntry)
    /\ UNCHANGED <<file, line_map, file_size, load_time_point, load_result, file_changed, now,
                   uiVars, watcher, log_view, shellVars, input>>

NextMap ==
    \/ \E fault \in LoadFaults, pushed \in 0..MaxChunks : Load(fault, pushed)
    \/ \E line_number \in 0..(MaxLineNum + 1) : FindRowForLine(line_number)
    \/ \E row_idx \in 0..MaxLineNum, overflow_checks \in BOOLEAN :
          TableRow(row_idx, overflow_checks)

SpecMap == InitMap /\ [][NextMap]_vars

\* C9: with a result set R, find_row_for_line(R[i], Some(R)) is Some(i) for
\* every valid index i and the line of a row, R[row], inverts it; a line that
\* is not in R has no row; without a result set the row of line n is n.
C9_RowsAndLines ==
    /\ last.op = "find_row_for_line" =>
          IF input.tag = "Some"
          THEN /\ \A i \in 1..Len(input.lines) :
                     input.lines[i] = last.n => last.val = SomeNum(i - 1)
               /\ (\A i \in 1..Len(input.lines) : input.lines[i] # last.n) => last.val = None
          ELSE last.val = SomeNum(last.n)
    /\ (last.op = "table_row" /\ last.val.tag = "Some") =>
          /\ input.tag = "Some" => last.val.num = input.lines[last.n + 1]
          /\ input.tag = "None" => last.val.num = last.n
          /\ find_row_for_line(last.val.num, input) = SomeNum(last.n)

\* The row of the last of three filtered lines has been found.
C9_Witness ==
    /\ last.op = "find_row_for_line"
    /\ input = SomeLines(<<0, 2, 4>>)
    /\ last.n = 4
    /\ last.val = SomeNum(2)

-----------------------------------------------------------------------------
(* The file watcher and has_changed, under SpecWatch and FairWatch           *)
(*                                                                          *)
(* The watcher thread takes the events of the watched path one by one and   *)
(* hands each to Sender::send on the channel of capacity 0, where it waits   *)
(* until a receiver takes the event; has_changed is one try_recv.            *)

\* The most events one write to the file raises (a modification followed by
\* the close of the writer's handle).
MaxEvents == 2

\* A bool returned to the caller.
Bool(b) == [tag |-> IF b THEN "true" ELSE "false", str |-> <<>>, num |-> 0, lines |-> <<>>]

\* The events raised over the time that is looked at.
MaxRaised == MaxEvents * MaxChunks

\* The events raised so far.
raised(w) == w.queued + w.emitted

\* The operating system queues k events of the watched path.
queue_events(w, k) ==
    [w EXCEPT !.queued = @ + k, !.queued_since_true = @ + k]

\* A handler that gives up the event when no receiver is waiting.
handle_event_try_send(w) ==
    [w EXCEPT !.queued = @ - 1, !.emitted = @ + 1, !.emitted_since_true = @ + 1]

\* The watcher thread hands the next event to the EventHandler of the
\* channel's Sender, which calls send and waits there.
handle_event(w) ==
    [w EXCEPT !.queued = @ - 1, !.sending = TRUE, !.emitted = @ + 1,
              !.emitted_since_true = @ + 1]

\* A try_recv that reads the event and leaves the sender waiting with it.
try_recv_peeking(w) ==
    [ok |-> w.sending,
     watcher |-> IF w.sending
                 THEN [w EXCEPT !.received = @ + 1, !.queued_since_true = 0,
                                !.emitted_since_true = 0]
                 ELSE w]

\* Receiver::try_recv on the channel of capacity 0: it takes the event of a
\* sender that waits in send and lets that sender go on, and it is an error
\* (Empty) when no sender waits.
try_recv(w) ==
    [ok |-> w.sending,
     watcher |-> IF w.sending
                 THEN [w EXCEPT !.sending = FALSE, !.received = @ + 1,
                                !.queued_since_true = 0, !.emitted_since_true = 0]
                 ELSE w]

\* LogFileReader::has_changed
has_changed(w) == try_recv(w).ok

\* The logging process appends a chunk to the watched file, which raises
\* `events` events.
WatchedAppend(chunk, events) ==
    /\ Len(file) < MaxChunks
    /\ raised(watcher) + events <= MaxRaised
    /\ file' = Append(file, chunk)
    /\ file_changed' = TRUE
    /\ watcher' = queue_events(watcher, events)
    /\ last' = Op("external_append", 0, TRUE, <<>>, None, NoEntry)
    /\ UNCHANGED <<readerVars, now, uiVars, log_view, shellVars, input>>

\* Another process truncates the watched file to its first `keep` chunks.
WatchedTruncate(keep, events) ==
    /\ keep < Len(file)
    /\ raised(watcher) + events <= MaxRaised
    /\ file' = SubSeq(file, 1, keep)
    /\ file_changed' = TRUE
    /\ watcher' = queue_events(watcher, events)
    /\ last' = Op("external_truncate", 0, TRUE, <<>>, None, NoEntry)
    /\ UNCHANGED <<readerVars, now, uiVars, log_view, shellVars, input>>

\* The watcher thread, not waiting in send, takes the next event.
WatcherSend ==
    /\ ~watcher.sending
    /\ watcher.queued > 0
    /\ watcher' = handle_event(watcher)
    /\ last' = Op("handle_event", 0, TRUE, <<>>, None, NoEntry)
    /\ UNCHANGED <<file, readerVars, file_changed, now, uiVars, log_view, shellVars, input>>

\* A call of has_changed by the thread that owns the reader.
HasChanged ==
    /\ ~panicked
    /\ watcher' = try_recv(watcher).watcher
    /\ last' = Op("has_changed", 0, TRUE, <<>>, Bool(has_changed(watcher)), NoEntry)
    /\ UNCHANGED <<file, readerVars, file_changed, now, uiVars, log_view, shellVars, input>>

EventCounts == 1..MaxEvents

NextWatch ==
    \/ \E chunk \in FileChunks, events \in EventCounts : WatchedAppend(chunk, events)
    \/ \E keep \in 0..MaxChunks, events \in EventCounts : WatchedTruncate(keep, events)
    \/ WatcherSend
    \/ HasChanged

SpecWatch == Init /\ [][NextWatch]_vars

\* The watcher thread is scheduled by the operating system whenever it can
\* run, and the consumer polls in every frame.
FairWatch == SpecWatch /\ WF_vars(WatcherSend) /\ WF_vars(HasChanged)

\* C14: the events raised before a poll coalesce into one reload decision: a
\* has_changed that returns true is followed by calls that return false until
\* the file is modified again, that is, every call that returns true has an
\* event that was raised after the previous call that returned true.
C14_Coalesced ==
    [][(last'.op = "has_changed" /\ last'.val = Bool(TRUE)) =>
          watcher.queued_since_true >= 1]_vars

C16_NoChangeLost ==
    /\ (last.op \in {"external_append", "external_truncate"})
          ~> (last.op = "has_changed" /\ last.val = Bool(TRUE))
    /\ <>[](watcher.queued = 0 /\ ~watcher.sending)
    /\ [](ENABLED HasChanged)

\* has_changed has returned true after two writes, the watcher thread waiting
\* in send with a further event.
C16_Witness ==
    /\ last.op = "has_changed"
    /\ last.val = Bool(TRUE)
    /\ watcher.received >= 1
    /\ watcher.queued >= 2
    /\ Len(file) = 2

-----------------------------------------------------------------------------
(* Reload on a change signal, under SpecReload: the reader, the watcher and  *)
(* a logging process that appends to the file.                              *)

NextReload ==
    \/ \E fault \in LoadFaults, pushed \in 0..MaxChunks : Load(fault, pushed)
    \/ \E chunk \in FileChunks : WatchedAppend(chunk, 1)
    \/ WatcherSend
    \/ HasChanged

SpecReload == Init /\ [][NextReload]_vars

\* The chunks of the file that the index in line_map was built from, when the
\* file has only grown since: the longest prefix that ends at file_size.
LoadedChunks ==
    CHOOSE k \in 0..Len(file) :
        /\ Len(Bytes(SubSeq(file, 1, k))) <= file_size
        /\ \A j \in (k + 1)..Len(file) : Len(Bytes(SubSeq(file, 1, j))) > file_size

\* This step is a load that returns Ok, made right after has_changed returned
\* true, on a file that was loaded with success before and has had one chunk
\* appended since.
ReloadAfterAppend ==
    /\ last.op = "has_changed"
    /\ last.val = Bool(TRUE)
    /\ last'.op = "load"
    /\ last'.val.tag = "Ok"
    /\ load_result = "ok"
    /\ Len(Bytes(SubSeq(file, 1, LoadedChunks))) = file_size
    /\ Len(file) = LoadedChunks + 1

\* What the reload gives: one line more, the appended line readable at the
\* old line count, and every earlier line read as before.
OneMoreLine ==
    /\ line_count' = line_count + 1
    /\ last'.val = Ok(line_count + 1)
    /\ \E c \in {line_count} :
          read_line(c, TRUE)' = SomeStr(from_utf8_lossy(file[Len(file)]))
    /\ \A n \in 0..(line_count - 1) : read_line(n, TRUE)' = read_line(n, TRUE)

\* C17 as stated: from a loaded file with line count c, after one line is
\* appended, the change signal observed and load called again, line_count()
\* is c + 1, the new line is readable at index c and the lines 0..c-1 read
\* as before.
C17_ReloadAfterAppend ==
    [][ReloadAfterAppend => OneMoreLine]_vars

\* C17, amended: the same, for a file that was empty or ended in a line
\* terminator when it was loaded.
C17_ReloadAfterTerminatedAppend ==
    [][(/\ ReloadAfterAppend
        /\ file_size = 0 \/ Bytes(file)[file_size] = NL) => OneMoreLine]_vars

\* A file of one entry line was reloaded after a second entry line was
\* appended and has_changed returned true for the one event of that write.
C17_Witness ==
    /\ last.op = "load"
    /\ last.val = Ok(2)
    /\ file = <<ChunkEntry, ChunkEntry>>
    /\ raised(watcher) = 1
    /\ watcher.received = 1
    /\ read_line(1, TRUE) = SomeStr(from_utf8_lossy(ChunkEntry))

-----------------------------------------------------------------------------
(* Opening a file, under SpecOpen: TemplateApp::open_file, LogView::open,    *)
(* LogLinesView::open, LogFileReader::open and the first load.               *)

\* The steps of LogFileReader::open that can fail: the creation of the
\* watcher, the watch on the path, and File::open.
OpenSteps == {"watcher", "watch", "file"}

\* An open that goes on without a watch when the watch cannot be set up.
LogFileReader_open_unwatched(failing) ==
    IF "file" \in failing THEN Err ELSE Ok(0)

\* LogFileReader::open, `failing` being the steps that fail when they are
\* tried: Err, or Ok with a reader that has not loaded.
LogFileReader_open(failing) ==
    IF "watcher" \in failing THEN Err
    ELSE IF "watch" \in failing THEN Err
    ELSE IF "file" \in failing THEN Err
    ELSE Ok(0)

\* Option<&Path>
NoPath == [tag |-> "None", path |-> ""]
SomePath(path) == [tag |-> "Some", path |-> path]

\* The path of the file the reader reads.
LogPath == "a.log"

\* The elements of a sequence.
Range(seq) == {seq[k] : k \in 1..Len(seq)}

\* An add_recent_file that lists the path once more each time it is opened.
add_recent_file_unchecked(recent_files, logfile_path) == Append(recent_files, logfile_path)

\* TemplateApp::add_recent_file
add_recent_file(recent_files, logfile_path) ==
    IF \E k \in 1..Len(recent_files) : recent_files[k] = logfile_path THEN recent_files
    ELSE Append(recent_files, logfile_path)

\* TemplateApp::open_file on the app a: file_to_open is the path handed in or
\* picked in the file dialog, if one was, and opened says that LogView::open
\* returned Ok for it.
open_file(a, file_to_open, opened) ==
    IF file_to_open.tag = "Some" /\ opened
    THEN [tree |-> Append(a.tree, file_to_open.path),
          recent_files |-> add_recent_file(a.recent_files, file_to_open.path)]
    ELSE a

\* TemplateApp::open_file with a path: LogView::open, which is
\* LogLinesView::open, which opens a reader and loads it once; a tab is
\* pushed when LogView::open returned Ok. The steps of `failing` fail, and
\* the load meets the fault `fault` after `pushed` line starts. The record of
\* the call says whether File::open can succeed, whether the watch can be set
\* up, and what LogFileReader::open returned.
OpenFile(failing, fault, pushed) ==
    /\ ~panicked
    /\ ~log_view.open
    /\ fault # "scan" => pushed = 0
    /\ LogFileReader_open(failing) = Err => fault = "none"
    /\ LET reader == LogFileReader_open(failing)
           bytes == Bytes(file)
           starts == LineStarts(bytes)
       IN  /\ pushed \in 0..Len(starts)
           /\ IF reader.tag = "Ok"
              THEN /\ line_map' =
                         CASE fault = "rewind" -> <<>>
                           [] fault = "scan" -> SubSeq(starts, 1, pushed)
                           [] fault = "seek" -> starts
                           [] fault = "none" -> load_index(bytes)
                   /\ file_size' = IF fault = "none" THEN Len(bytes) ELSE 0
                   /\ load_time_point' = IF fault = "none" THEN SomeTime(now) ELSE NoTime
                   /\ load_result' = IF fault = "none" THEN "ok" ELSE "err"
                   /\ file_changed' = FALSE
                   /\ watcher' = Watching
                   /\ log_view' =
                         [open |-> TRUE,
                          status_text |->
                              IF fault = "none"
                              THEN StatusText("Loaded {} lines.", line_count_of(line_map'), FALSE)
                              ELSE StatusText("Failed to load lines from file: {}", 0, TRUE)]
              ELSE UNCHANGED <<line_map, file_size, load_time_point, load_result,
                               file_changed, watcher, log_view>>
           /\ last' = Op("open_file", 0, "file" \notin failing,
                         IF failing \cap {"watcher", "watch"} # {} THEN <<"watch">> ELSE <<>>,
                         reader, NoEntry)
           /\ app' = open_file(app, SomePath(LogPath), reader.tag = "Ok")
    /\ UNCHANGED <<file, panicked, now, uiVars, tables, viewer_state, log_entries_tab,
                   selection_state, input>>

\* A frame of LogLinesView::ui_entries, which asks the reader for its
\* line_count. On an empty line_map the subtraction overflows: a panic in a
\* build with overflow checks, usize::MAX without.
UiEntries(overflow_checks) ==
    /\ ~panicked
    /\ log_view.open
    /\ LET overflow == Len(line_map) = 0
       IN  /\ panicked' = (overflow /\ overflow_checks)
           /\ last' = Op("ui_entries", 0, TRUE, <<>>,
                         IF overflow /\ overflow_checks THEN Panic ELSE SomeNum(line_count),
                         NoEntry)
    /\ UNCHANGED <<file, line_map, file_size, load_time_point, load_result, file_changed, now,
                   uiVars, watcher, log_view, shellVars, input>>

\* The user closes the tab of the view in the DockArea.
CloseLogView ==
    /\ log_view.open
    /\ log_view' = NoLogView
    /\ app' = [app EXCEPT !.tree = SelectSeq(@, LAMBDA path : path # LogPath)]
    /\ last' = Op("close_view", 0, TRUE, <<>>, None, NoEntry)
    /\ UNCHANGED <<file, readerVars, file_changed, now, uiVars, watcher, tables, viewer_state,
                   log_entries_tab, selection_state, input>>

NextOpen ==
    \/ \E failing \in SUBSET OpenSteps, fault \in LoadFaults, pushed \in 0..MaxChunks :
          OpenFile(failing, fault, pushed)
    \/ \E overflow_checks \in BOOLEAN : UiEntries(overflow_checks)
    \/ CloseLogView
    \/ \E chunk \in FileChunks : ExternalAppend(chunk)
    \/ \E keep \in 0..MaxChunks : ExternalTruncate(keep)

SpecOpen == Init /\ [][NextOpen]_vars

\* C18: a first load that fails is not fatal to the view: LogLinesView::open
\* returns Ok, the tab is there with the error as its status text, and the
\* reader shows no lines: line_count() is 0 after the failed load, also when
\* the view asks for it in its next frame.
C18_FailedLoadShowsNoLines ==
    /\ (last.op = "open_file" /\ last.val.tag = "Ok" /\ load_result = "err") =>
          /\ log_view.open
          /\ log_view.status_text = StatusText("Failed to load lines from file: {}", 0, TRUE)
          /\ line_count = 0
    /\ (last.op = "ui_entries" /\ load_result = "err") => last.val = SomeNum(0)

\* C19: when the watch of the file cannot be set up, LogFileReader::open
\* returns an error and no reader, also when File::open would succeed and the
\* file could be indexed, and open_file adds no LogView tab; a tab is there
\* only after an open_file whose watch was set up.
C19_WatchFailureIsFatal ==
    /\ (last.op = "open_file" /\ last.arg = <<"watch">>) =>
          /\ last.val = Err
          /\ ~log_view.open
    /\ (last.op = "open_file" /\ last.val.tag = "Ok") =>
          /\ last.arg = <<>>
          /\ last.io_ok
          /\ log_view.open
    /\ (last.op = "open_file" /\ last.val = Err) => ~log_view.open

\* open_file has failed on the watch for a file of two lines that File::open
\* can open, and no tab is there.
C19_Witness ==
    /\ last.op = "open_file"
    /\ last.arg = <<"watch">>
    /\ last.io_ok
    /\ last.val = Err
    /\ ~log_view.open
    /\ line_count_of(load_index(Bytes(file))) = 2

-----------------------------------------------------------------------------
(* The index between loads, under SpecFrame: every operation of the reader, *)
(* next to the watcher and a logging process that appends entries, or next  *)
(* to the searches of a FilteredLogEntriesTab on the same path.             *)

\* The logging process writes entry lines; the user searches for t.
FrameChunks == {ChunkEntry}
FrameTerms == {<<"t">>}

\* The reader is looked at together with its watcher (search_ui = "none") or
\* together with a tab that searches the file it reads.
InitFrame ==
    /\ \E f \in SeqsUpTo(FrameChunks, MaxChunks) : Opened(f)
    /\ search_ui \in {"none", "FilteredLogEntriesTab"}
    /\ input = LineEntryWithMessage

NextFrame ==
    \/ \E fault \in LoadFaults, pushed \in 0..MaxChunks : Load(fault, pushed)
    \/ \E n \in LineNumbers, io_ok \in BOOLEAN : ReadLine(n, io_ok)
    \/ \E n \in LineNumbers, io_ok \in BOOLEAN : ReadEntry(n, io_ok)
    \/ ParseLogline
    \/ search_ui = "none" /\ HasChanged
    \/ search_ui = "none" /\ WatcherSend
    \/ search_ui = "none" /\ \E chunk \in FrameChunks : WatchedAppend(chunk, 1)
    \/ \E text \in FrameTerms : TabEditSearchTerm(text)
    \/ \E io_ok \in BOOLEAN : TabExecuteSearch(io_ok)
    \/ search_ui # "none" /\ \E chunk \in FrameChunks : ExternalAppend(chunk)

SpecFrame == InitFrame /\ [][NextFrame]_vars

\* C20: the index is immutable between loads: read_line, read_entry,
\* parse_logline, has_changed and a search leave line_map, file_size and
\* load_time_point as they are, and so do the watcher thread and the writes
\* of other processes: only a load changes them, so line_count() keeps its
\* value and every read_line between two loads is computed from the index
\* the first of them left.
C20_IndexImmutableBetweenLoads ==
    [][/\ last'.op \in {"read_line", "read_entry", "parse_logline", "has_changed",
                         "execute_search"} =>
             UNCHANGED <<line_map, file_size, load_time_point>>
       /\ last'.op # "load" =>
             /\ UNCHANGED <<line_map, file_size, load_time_point>>
             /\ line_count' = line_count
             /\ \A n \in LineNumbers :
                   line_file_offsets(n)' = line_file_offsets(n)]_vars

\* After a load of a file of one entry line the file grew and a search of the
\* tab, reading the file through its own handle, found both lines, while the
\* index is the one that load left.
C20_Witness ==
    /\ last.op = "execute_search"
    /\ last.val = SearchOk(<<0, 1>>)
    /\ load_result = "ok"
    /\ load_time_point = SomeTime(0)
    /\ file = <<ChunkEntry, ChunkEntry>>
    /\ line_map = load_index(Bytes(<<ChunkEntry>>))
    /\ file_size = Len(ChunkEntry)

-----------------------------------------------------------------------------
(* One frame of LogEntriesTable::ui *)

\* What the user does to a table in one frame: nothing, a click on the Tail
\* Log button, a click on the Sync Selection button, or a click on a row.
TableEvents == {"none", "tail_log", "sync_line_selection", "row"}

\* Most rows of a table that are on the screen, and so drawn, in one frame.
VisibleRows == 3

\* LogEntriesTable::toolbar_ui
toolbar_ui(table, event) ==
    IF event = "tail_log" THEN [table EXCEPT !.tail_log = ~table.tail_log]
    ELSE IF event = "sync_line_selection"
    THEN [table EXCEPT !.sync_line_selection = ~table.sync_line_selection]
    ELSE table

\* LogEntriesTable::last_row_index. Without filtered entries it is
\* line_count() - 1 in usize: with no line counted the subtraction panics in a
\* build with overflow checks and wraps to usize::MAX in one without.
last_row_index(filtered_entries, overflow_checks) ==
    IF filtered_entries.tag = "Some"
    THEN IF Len(filtered_entries.lines) = 0 THEN None
         ELSE SomeNum(Len(filtered_entries.lines) - 1)
    ELSE IF Len(line_map) = 0
    THEN IF overflow_checks THEN Panic ELSE SomeNum(USIZE_MAX - 1)
    ELSE IF line_count = 0
    THEN IF overflow_checks THEN Panic ELSE SomeNum(USIZE_MAX)
    ELSE SomeNum(line_count - 1)

\* A selection sync that adopts the shared selection whether or not the line
\* is one of the rows of the table.
sync_selection_always_adopting(table, viewer, filtered_entries) ==
    LET differs == table.sync_line_selection /\ table.selected_line # viewer.selected_line_num
        adopts == differs /\ viewer.selected_line_num.tag = "Some"
    IN  [table |-> IF differs
                   THEN [table EXCEPT !.selected_line = IF adopts THEN viewer.selected_line_num
                                                        ELSE @,
                                      !.scroll_to_selected = FALSE]
                   ELSE table,
         scroll_to_row |-> None]

\* The selection sync of LogEntriesTable::ui: the table after it, and the row
\* it asks the table to scroll to.
sync_selection(table, viewer, filtered_entries) ==
    LET differs == table.sync_line_selection /\ table.selected_line # viewer.selected_line_num
        selected_row == IF viewer.selected_line_num.tag = "Some"
                        THEN find_row_for_line(viewer.selected_line_num.num, filtered_entries)
                        ELSE None
        adopts == differs /\ selected_row.tag = "Some"
    IN  [table |-> IF differs
                   THEN [table EXCEPT !.selected_line = IF adopts THEN viewer.selected_line_num
                                                        ELSE @,
                                      !.scroll_to_selected = FALSE]
                   ELSE table,
         scroll_to_row |-> IF adopts /\ ~table.tail_log THEN selected_row ELSE None]

\* The rows of the body that are drawn: the line number of each and what
\* ui_logline read for it.
body_rows(filtered_entries, rows, io_ok) ==
    [r \in 1..rows |->
        LET line_number == line_for_row(r - 1, filtered_entries)
        IN  [line_number |-> line_number, line |-> read_line(line_number, io_ok)]]

\* LogEntriesTable::ui: one frame of a table. event is what the user does in
\* the frame and row the row clicked, if one is; io_ok says that the reads of
\* the rows meet no I/O error. The result is the table and the viewer state
\* the frame leaves, the row it scrolls to, the rows it drew and whether it
\* panicked.
LogEntriesTable_ui(table, viewer, filtered_entries, event, row, io_ok, overflow_checks) ==
    LET tools == toolbar_ui(table, event)
        counted == filtered_entries.tag = "Some" \/ Len(line_map) > 0 \/ ~overflow_checks
        rows == IF counted THEN total_rows(filtered_entries) ELSE 0
        tail == IF tools.tail_log /\ counted
                THEN last_row_index(filtered_entries, overflow_checks) ELSE None
        synced == sync_selection(tools, viewer, filtered_entries)
        drawn == body_rows(filtered_entries, IF rows < VisibleRows THEN rows ELSE VisibleRows,
                           io_ok)
        clicked == event = "row" /\ row < rows
        line_number == IF clicked THEN line_for_row(row, filtered_entries) ELSE 0
        panic == \/ ~counted
                 \/ tail.tag = "Panic"
                 \/ \E r \in 1..Len(drawn) : drawn[r].line.tag = "Panic"
    IN  [table |-> IF clicked THEN [synced.table EXCEPT !.selected_line = SomeNum(line_number)]
                   ELSE synced.table,
         viewer_state |-> IF clicked /\ synced.table.sync_line_selection
                          THEN [viewer EXCEPT !.selected_line_num = SomeNum(line_number)]
                          ELSE viewer,
         scroll_to_row |-> IF synced.scroll_to_row.tag = "Some" THEN synced.scroll_to_row
                           ELSE tail,
         rows |-> drawn,
         panic |-> panic]

-----------------------------------------------------------------------------
(* One frame of FilteredLogEntriesTab::ui, under SpecRepeat: the tab of a   *)
(* reader that is loaded again and again while the clock runs               *)

\* Latest reading of the clock.
MaxTime == 2

\* What the user does to the tab in one frame: nothing, an edit of the search
\* text, Enter in the search text, a click on Case, Word, Regex or Search, a
\* click on the Repeat Search button of the toolbar, or one of the events of
\* its table.
TabEvents ==
    {"none", "edit", "enter", "search", "repeat_search"} \cup OptionNames \cup TableEvents

\* The record of a frame of a tab: the event, whether its I/O met no error,
\* how often it called execute_search, whether the repeat-search logic did,
\* the rows its table drew and the row the table scrolled to.
Frame(op, event, io_ok, searches, repeated, rows, scroll_to_row) ==
    [op |-> op, event |-> event, io_ok |-> io_ok, searches |-> searches,
     repeated |-> repeated, rows |-> rows, scroll_to_row |-> scroll_to_row]

\* FilteredLogEntriesTab::ui_search in a frame with the event.
ui_search(tab, event, text, bytes, io_ok, time) ==
    IF event = "edit" THEN [tab EXCEPT !.editable_search_term = text]
    ELSE IF event \in {"enter", "search"} THEN execute_search(tab, bytes, io_ok, time)
    ELSE IF event \in OptionNames THEN [tab EXCEPT !.search_options = toggle(@, event)]
    ELSE tab

\* A search_needed that holds only as long as no search has run.
search_needed_first_only(last_search_time, load_time) == ~last_search_time.some

\* search_needed of FilteredLogEntriesTab::ui, for a load time point that is
\* Some.
search_needed(last_search_time, load_time) ==
    IF last_search_time.some THEN last_search_time.t < load_time.t ELSE TRUE

\* Whether the repeat-search logic of FilteredLogEntriesTab::ui runs
\* execute_search.
repeats_search(tab, repeat_search, load_time) ==
    repeat_search /\ load_time.some /\ search_needed(tab.last_search_time, load_time)

\* The tab as a frame of FilteredLogEntriesTab::ui leaves it, before its table
\* is drawn: repeat_search is written back at the end of the frame.
FilteredLogEntriesTab_ui(tab, event, text, bytes, io_ok, time) ==
    LET repeat_search == tab.repeat_search
        searched == ui_search(tab, event, text, bytes, io_ok, time)
        repeated == IF repeats_search(searched, repeat_search, load_time_point)
                    THEN execute_search(searched, bytes, io_ok, time)
                    ELSE searched
    IN  [repeated EXCEPT !.repeat_search = IF event = "repeat_search" THEN ~repeat_search
                                           ELSE repeat_search]

\* A frame of FilteredLogEntriesTab::ui.
TabUi(event, text, row, io_ok, overflow_checks) ==
    /\ ~panicked
    /\ event = "edit" \/ text = <<>>
    /\ event = "row" \/ row = 0
    /\ LET bytes == Bytes(file)
           searched == ui_search(filtered_tab, event, text, bytes, io_ok, now)
           repeated == repeats_search(searched, filtered_tab.repeat_search, load_time_point)
           tab == FilteredLogEntriesTab_ui(filtered_tab, event, text, bytes, io_ok, now)
           table == LogEntriesTable_ui(tables["search"], viewer_state,
                                       SomeLines(tab.search_results), event, row, io_ok,
                                       overflow_checks)
       IN  /\ event = "row" => row < Len(tab.search_results)
           /\ filtered_tab' = tab
           /\ tables' = [tables EXCEPT !["search"] = table.table]
           /\ viewer_state' = table.viewer_state
           /\ panicked' = table.panic
           /\ last' = Frame("ui", event, io_ok,
                            (IF event \in {"enter", "search"} THEN 1 ELSE 0)
                               + (IF repeated THEN 1 ELSE 0),
                            repeated, table.rows, table.scroll_to_row)
    /\ UNCHANGED <<file, line_map, file_size, load_time_point, load_result, file_changed, now,
                   search_window, search_ui, watcher, log_view, log_entries_tab,
                   selection_state, app, input>>

\* The clock moves on.
Tick ==
    /\ now < MaxTime
    /\ now' = now + 1
    /\ last' = Op("tick", 0, TRUE, <<>>, None, NoEntry)
    /\ UNCHANGED <<file, readerVars, file_changed, uiVars, watcher, log_view, shellVars, input>>

\* The clock reads later than it did when the tab last searched: what a load
\* that completes after that search finds.
ClockMovedOn ==
    filtered_tab.last_search_time.some => filtered_tab.last_search_time.t < now

\* The file holds no line, or lines that the search for hello finds.
RepeatChunks == {LineHelloCapital}
RepeatFiles == {<<>>, <<LineHelloCapital>>, <<LineHelloCapital, LineHelloCapital>>}
RepeatTerms == {TermEmpty, TermHello}
RepeatEvents == {"none", "edit", "enter", "repeat_search"}

InitRepeat ==
    /\ \E f \in RepeatFiles : Opened(f)
    /\ search_ui = "FilteredLogEntriesTab"
    /\ input = <<>>

NextRepeat ==
    \/ ClockMovedOn /\ \E fault \in {"none", "rewind"} : Load(fault, 0)
    \/ \E event \in RepeatEvents, text \in RepeatTerms, io_ok \in BOOLEAN :
          TabUi(event, text, 0, io_ok, TRUE)
    \/ Tick

SpecRepeat == InitRepeat /\ [][NextRepeat]_vars

\* A load has completed and no search has run since: none at all, or none
\* that read the clock as late as the load did.
SearchIsStale ==
    /\ load_time_point.some
    /\ filtered_tab.last_search_time.some =>
          filtered_tab.last_search_time.t < load_time_point.t

\* The rows a frame drew are the first rows of the search results it left.
DrewRowsOf(rows, search_results) ==
    /\ Len(rows) = IF Len(search_results) < VisibleRows THEN Len(search_results)
                   ELSE VisibleRows
    /\ \A r \in 1..Len(rows) : rows[r].line_number = search_results[r]

\* C21: a cached search is refreshed when it is stale relative to the last
\* load. load() records its completion time point only when it succeeds. In a
\* tab with repeat_search enabled, a frame of ui() that starts with a load
\* completed after the last search, or with a load completed and no search run
\* yet, executes the search at the time of the frame and draws the table from
\* the results that search left; so does the frame that follows a successful
\* load. With repeat_search disabled the repeat-search logic starts no search:
\* a frame without Enter or a click on Search leaves the search as it is.
C21_StaleSearchRefreshed ==
    [][/\ last'.op = "load" =>
             load_time_point' = IF last'.io_ok THEN SomeTime(now) ELSE load_time_point
       /\ last'.op = "ui" =>
             /\ (filtered_tab.repeat_search /\ SearchIsStale) =>
                   /\ last'.searches >= 1
                   /\ filtered_tab'.last_search_time = SomeTime(now)
                   /\ filtered_tab'.search_term = filtered_tab'.editable_search_term
             /\ (filtered_tab.repeat_search /\ last.op = "load" /\ last.io_ok) =>
                   last'.searches >= 1
             /\ DrewRowsOf(last'.rows, filtered_tab'.search_results)
             /\ ~filtered_tab.repeat_search =>
                   /\ ~last'.repeated
                   /\ last'.event \notin {"enter", "search"} =>
                         /\ filtered_tab'.last_search_time = filtered_tab.last_search_time
                         /\ filtered_tab'.search_term = filtered_tab.search_term
                         /\ filtered_tab'.search_results = filtered_tab.search_results]_vars

\* The file of two lines was loaded a second time, later than the search for
\* hello had run, and the next frame ran that search again and drew both rows.
C21_Witness ==
    /\ last.op = "ui"
    /\ last.event = "none"
    /\ last.repeated
    /\ load_time_point = SomeTime(1)
    /\ filtered_tab.last_search_time = SomeTime(1)
    /\ filtered_tab.search_term = TermHello
    /\ filtered_tab.search_results = <<0, 1>>
    /\ Len(last.rows) = 2

\* C26: the repeat-search logic cannot loop. A frame of ui() calls
\* execute_search at most once, and the repeat-search logic calls it only when
\* the search is stale; after a frame that searched, and after every frame of
\* a tab with repeat_search enabled, the search is not stale, whether the
\* search succeeded, failed or had an empty term; and only a load that
\* completes makes it stale again. So between two loads the repeat-search
\* logic runs at most once, and never in two frames in a row.
C26_RepeatSearchOncePerLoad ==
    [][/\ last'.op = "ui" =>
             /\ last'.searches <= 1
             /\ last'.repeated => SearchIsStale
             /\ (last'.searches = 1 \/ filtered_tab.repeat_search) => ~SearchIsStale'
             /\ (last.op = "ui" /\ last.repeated) => ~last'.repeated
       /\ (~SearchIsStale /\ SearchIsStale') => (last'.op = "load" /\ last'.io_ok)]_vars

\* After the second load of a file that holds Hello the search for hello ran
\* and failed, leaving no results, and the frame after it, repeat_search still
\* enabled, did not search again.
C26_Witness ==
    /\ last.op = "ui"
    /\ last.event = "none"
    /\ last.searches = 0
    /\ filtered_tab.repeat_search
    /\ file = <<LineHelloCapital>>
    /\ load_time_point = SomeTime(1)
    /\ filtered_tab.last_search_time = SomeTime(1)
    /\ filtered_tab.search_term = TermHello
    /\ filtered_tab.search_results = <<>>

-----------------------------------------------------------------------------
(* LogEntriesTab, under SpecEntriesTab: the frames of the tab, and the      *)
(* selection its view shares with the other tabs                            *)

\* A LogEntriesTab::ui that does not save the line clicked in its table.
LogEntriesTab_ui_unsaved(tab, selection, clicked) ==
    LET scroll == selection.selected_line_num # tab.selected_line_num
    IN  [selected_line_num |-> IF scroll THEN selection.selected_line_num
                               ELSE tab.selected_line_num,
         scrolled |-> scroll,
         response |-> clicked]

\* LogEntriesTab::ui. clicked is the line of the row clicked in the table of
\* the tab in this frame, if one was.
LogEntriesTab_ui(tab, selection, clicked) ==
    LET scroll == selection.selected_line_num # tab.selected_line_num
        saved == IF scroll THEN selection.selected_line_num ELSE tab.selected_line_num
    IN  [selected_line_num |-> IF clicked.tag = "Some" THEN clicked ELSE saved,
         scrolled |-> scroll,
         response |-> clicked]

\* A frame of the tab.
EntriesTabUi(clicked) ==
    /\ ~panicked
    /\ log_entries_tab' = LogEntriesTab_ui(log_entries_tab, selection_state, clicked)
    /\ last' = Op("entries_tab_ui", 0, TRUE, <<>>, clicked, NoEntry)
    /\ UNCHANGED <<file, readerVars, file_changed, now, uiVars, watcher, log_view, tables,
                   viewer_state, selection_state, app, input>>

\* The view stores a selected line in the LogSelectionState it hands to its
\* tabs: the line a tab returned in its response, this tab or another.
SelectLine(line) ==
    /\ selection_state' = [selection_state EXCEPT !.selected_line_num = SomeNum(line)]
    /\ last' = Op("select_line", line, TRUE, <<>>, None, NoEntry)
    /\ UNCHANGED <<file, readerVars, file_changed, now, uiVars, watcher, log_view, tables,
                   viewer_state, log_entries_tab, app, input>>

\* The lines a click can select.
ClickedLines == {None} \cup {SomeNum(line) : line \in 0..MaxLineNum}

InitEntriesTab ==
    /\ Opened(<<>>)
    /\ search_ui = "none"
    /\ input = <<>>

NextEntriesTab ==
    \/ \E clicked \in ClickedLines : EntriesTabUi(clicked)
    \/ \E line \in 0..MaxLineNum : SelectLine(line)

SpecEntriesTab == InitEntriesTab /\ [][NextEntriesTab]_vars

\* C22: a line clicked in the tab is saved as the tab's selected_line_num in
\* the frame of the click; a frame asks the table to scroll to the selected
\* line exactly when the shared selected_line_num differs from the value the
\* tab had saved before the frame; and the frame that follows the tab's own
\* click on a line, the shared selection being that line, asks for no scroll.
C22_OwnClickDoesNotScroll ==
    [][last'.op = "entries_tab_ui" =>
          /\ last'.val.tag = "Some" => log_entries_tab'.selected_line_num = last'.val
          /\ log_entries_tab'.scrolled <=>
                selection_state.selected_line_num # log_entries_tab.selected_line_num
          /\ (/\ log_entries_tab.response.tag = "Some"
              /\ selection_state.selected_line_num = log_entries_tab.response) =>
                ~log_entries_tab'.scrolled]_vars

\* Line 1 was selected elsewhere; the frame in which line 2 was clicked in
\* the tab scrolled to line 1 and saved line 2, and the view has stored line 2
\* as the shared selection: the next frame finds nothing to scroll to.
C22_Witness ==
    /\ last.op = "select_line"
    /\ log_entries_tab.response = SomeNum(2)
    /\ log_entries_tab.scrolled
    /\ log_entries_tab.selected_line_num = SomeNum(2)
    /\ selection_state.selected_line_num = SomeNum(2)

-----------------------------------------------------------------------------
(* The index and the writers of the file, under SpecRace: a load whose scan *)
(* and whose size query see different contents of the file                  *)

\* LogFileReader::load with no I/O error, while another process writes the
\* file: the scan reads the file as it is, the file then becomes `written`,
\* and the seek to the end finds the size of that.
LoadDuringWrite(written) ==
    /\ ~panicked
    /\ written # file
    /\ file' = written
    /\ line_map' = Append(LineStarts(Bytes(file)), Len(Bytes(written)))
    /\ file_size' = Len(Bytes(written))
    /\ load_time_point' = SomeTime(now)
    /\ load_result' = "ok"
    /\ file_changed' = TRUE
    /\ last' = Op("load", 0, TRUE, <<>>, Ok(line_count_of(line_map')), NoEntry)
    /\ UNCHANGED <<panicked, now, uiVars, watcher, log_view, shellVars, input>>

\* The logging process writes entry lines.
RaceChunks == {ChunkEntry}

\* What a file can become while it is loaded: a chunk longer, or cut down to
\* its first chunks.
Written(f) ==
    {Append(f, chunk) : chunk \in IF Len(f) < MaxChunks THEN RaceChunks ELSE {}}
        \cup {SubSeq(f, 1, keep) : keep \in 0..(Len(f) - 1)}

InitRace ==
    /\ \E f \in SeqsUpTo(RaceChunks, MaxChunks) : Opened(f)
    /\ search_ui = "none"
    /\ input = <<>>

NextRace ==
    \/ \E fault \in LoadFaults, pushed \in 0..MaxChunks : Load(fault, pushed)
    \/ \E written \in Written(file) : LoadDuringWrite(written)
    \/ \E n \in LineNumbers, io_ok \in BOOLEAN : ReadLine(n, io_ok)
    \/ \E chunk \in RaceChunks : ExternalAppend(chunk)
    \/ \E keep \in 0..MaxChunks : ExternalTruncate(keep)

SpecRace == InitRace /\ [][NextRace]_vars

\* C23: in every state of the reader, for every line number n, the end offset
\* that line_file_offsets returns is at least the start offset, so the length
\* read_line computes from them does not underflow.
C23_EndNotBeforeStart ==
    \A n \in LineNumbers :
        line_file_offsets(n).end >= line_file_offsets(n).start

-----------------------------------------------------------------------------
(* The tab and the index, under SpecStale: the frames of a tab whose file   *)
(* is written between the load of the reader and the searches of the tab    *)

StaleEvents == {"none", "edit", "enter", "regex"}
StaleTerms == RepeatTerms \cup {TermParen}

InitStale ==
    /\ \E f \in SeqsUpTo(RepeatChunks, MaxChunks) : Opened(f)
    /\ search_ui = "FilteredLogEntriesTab"
    /\ input = <<>>

NextStale ==
    \/ ClockMovedOn /\ \E fault \in {"none", "rewind"} : Load(fault, 0)
    \/ \E event \in StaleEvents, text \in StaleTerms, io_ok \in BOOLEAN :
          TabUi(event, text, 0, io_ok, TRUE)
    \/ \E chunk \in RepeatChunks : ExternalAppend(chunk)
    \/ \E keep \in 0..MaxChunks : ExternalTruncate(keep)

SpecStale == InitStale /\ [][NextStale]_vars

\* C24: whenever a FilteredLogEntriesTab has drawn its rows, the line number
\* of every row, taken from search_results, is less than line_count() of the
\* index of the reader.
C24_ResultsWithinIndex ==
    last.op = "ui" =>
        /\ \A r \in 1..Len(last.rows) : last.rows[r].line_number < line_count
        /\ \A k \in 1..Len(filtered_tab.search_results) :
              filtered_tab.search_results[k] < line_count

\* C25: whenever search_term is not empty, search_results is what a
\* successful search for that search_term returned, on some content of the
\* file and under some setting of the options; when search_term is empty,
\* search_results is empty.
C25_TermAndResultsOfOneQuery ==
    IF filtered_tab.search_term = <<>> THEN filtered_tab.search_results = <<>>
    ELSE \E f \in SeqsUpTo(RepeatChunks, MaxChunks), options \in AllSearchOptions :
            search(options, Bytes(f), TRUE, filtered_tab.search_term)
                = SearchOk(filtered_tab.search_results)

-----------------------------------------------------------------------------
(* The tables of one view, under SpecTable: the table of the log tab, drawn *)
(* without filtered entries, and the table of a search tab, drawn with the  *)
(* filtered entries `input`, sharing one LogViewerState                     *)

\* The filtered entries a table of the view is drawn with.
entries_of(t) == IF t = "log" THEN None ELSE input

\* The record of a frame of a table: the table, the event, the line of the
\* row clicked, the row the table scrolled to, and whether the frame panicked.
TableFrame(t, event, line, tail_log, scroll_to_row) ==
    [op |-> "table_ui", table |-> t, event |-> event, line |-> line, tail_log |-> tail_log,
     scroll_to_row |-> scroll_to_row]

\* A frame of the table t.
TableUi(t, event, row, overflow_checks) ==
    /\ ~panicked
    /\ event = "row" \/ row = 0
    /\ event = "row" =>
          row < (IF Len(line_map) = 0 /\ entries_of(t) = None THEN 0
                 ELSE total_rows(entries_of(t)))
    /\ \E frame \in {LogEntriesTable_ui(tables[t], viewer_state, entries_of(t), event, row,
                                        TRUE, overflow_checks)} :
           /\ panicked' = frame.panic
           /\ tables' = IF frame.panic THEN tables ELSE [tables EXCEPT ![t] = frame.table]
           /\ viewer_state' = IF frame.panic THEN viewer_state ELSE frame.viewer_state
           /\ last' = TableFrame(t, event,
                                 IF event = "row" THEN SomeNum(line_for_row(row, entries_of(t)))
                                 ELSE None,
                                 toolbar_ui(tables[t], event).tail_log,
                                 frame.scroll_to_row)
    /\ UNCHANGED <<file, line_map, file_size, load_time_point, load_result, file_changed, now,
                   uiVars, watcher, log_view, log_entries_tab, selection_state, app, input>>

\* The search results the search tab of the view holds.
TableEntries == {SomeLines(<<>>), SomeLines(<<1>>), SomeLines(<<0, 2>>)}

\* The table counts the lines of the file: an empty file, and one of three
\* empty lines.
TableFiles == {<<>>, <<ChunkNewline, ChunkNewline, ChunkNewline>>}

InitTable ==
    /\ \E f \in TableFiles : Opened(f)
    /\ search_ui = "none"
    /\ input \in TableEntries

NextTable ==
    \/ Load("none", 0)
    \/ \E t \in TableIds, event \in TableEvents, row \in 0..(VisibleRows - 1),
          overflow_checks \in BOOLEAN :
          TableUi(t, event, row, overflow_checks)

SpecTable == InitTable /\ [][NextTable]_vars

\* The line is the line of one of the rows of the table t.
MapsToRow(line, t) ==
    entries_of(t) = None \/ \E k \in 1..Len(entries_of(t).lines) : entries_of(t).lines[k] = line

\* C27: selection sync between the tables that share one LogViewerState. A
\* click on line L sets the selected_line of the table to L and, sync enabled,
\* viewer_state.selected_line_num too. A frame of a sync-enabled table without
\* a click sets its selected_line to the shared selection L if L is the line
\* of one of its rows (any line without filtered entries, a member of the
\* filtered entries with them) and keeps its selection otherwise. A frame of
\* a table with sync disabled does not write viewer_state and, without a
\* click, keeps its selection. A frame of one table leaves the other alone.
C27_SelectionSync ==
    [][(last'.op = "table_ui" /\ ~panicked') =>
          LET t == last'.table
              sync == tables'[t].sync_line_selection
              shared == viewer_state.selected_line_num
          IN  /\ \A o \in TableIds \ {t} : tables'[o] = tables[o]
              /\ last'.event = "row" =>
                    /\ tables'[t].selected_line = last'.line
                    /\ sync => viewer_state'.selected_line_num = last'.line
              /\ (last'.event # "row" /\ sync) =>
                    /\ tables'[t].selected_line =
                          IF shared.tag = "Some" /\ MapsToRow(shared.num, t) THEN shared
                          ELSE tables[t].selected_line
                    /\ viewer_state' = viewer_state
              /\ ~sync =>
                    /\ viewer_state' = viewer_state
                    /\ last'.event # "row" => tables'[t].selected_line = tables[t].selected_line]_vars

\* Line 0 was clicked in the search tab, whose rows are the lines 0 and 2, and
\* adopted by the log table in its next frame; then line 1 was clicked in the
\* log table, and the frame of the search tab after that kept line 0, line 1
\* not being one of its rows.
C27_Witness ==
    /\ last.op = "table_ui"
    /\ last.table = "search"
    /\ last.event = "none"
    /\ input = SomeLines(<<0, 2>>)
    /\ tables["search"].sync_line_selection
    /\ tables["search"].selected_line = SomeNum(0)
    /\ tables["log"].selected_line = SomeNum(1)
    /\ viewer_state.selected_line_num = SomeNum(1)

\* C28: on a loaded reader, last_row_index is None when the table has no
\* rows and Some(row count - 1) otherwise, with filtered entries and without,
\* in either build; and a frame of a table with tail_log enabled and no rows
\* does not panic and sets no scroll target.
C28_LastRowIndex ==
    Len(line_map) > 0 =>
        /\ \A t \in TableIds, overflow_checks \in BOOLEAN :
              last_row_index(entries_of(t), overflow_checks) =
                  IF total_rows(entries_of(t)) = 0 THEN None
                  ELSE SomeNum(total_rows(entries_of(t)) - 1)
        /\ (/\ last.op = "table_ui"
            /\ last.tail_log
            /\ last.event # "row"
            /\ total_rows(entries_of(last.table)) = 0) =>
              (~panicked /\ last.scroll_to_row = None)

-----------------------------------------------------------------------------
(* TemplateApp and its recent files, under SpecRecent: files are opened     *)
(* from the file dialog and from the list of recent files, and tabs closed  *)

\* Most tabs in the tree at a time.
MaxTabs == 2

\* The paths the user can pick in the file dialog.
Paths == {LogPath, "b.log", "c.log"}

\* A call of open_file: with no path from the Open buttons, the file dialog
\* then returning `picked`, or with a path of the list of recent files.
\* opened says that LogView::open returns Ok for the path.
OpenPath(file_path, picked, opened) ==
    /\ ~panicked
    /\ file_path.tag = "Some" => (picked = NoPath /\ file_path.path \in Range(app.recent_files))
    /\ LET file_to_open == IF file_path.tag = "Some" THEN file_path ELSE picked
       IN  /\ file_to_open.tag = "None" => opened
           /\ (file_to_open.tag = "Some" /\ opened) => Len(app.tree) < MaxTabs
           /\ app' = open_file(app, file_to_open, opened)
           /\ last' = Op("open_path", 0, opened,
                         IF file_to_open.tag = "Some" THEN <<file_to_open.path>> ELSE <<>>,
                         None, NoEntry)
    /\ UNCHANGED <<file, readerVars, file_changed, now, uiVars, watcher, log_view, tables,
                   viewer_state, log_entries_tab, selection_state, input>>

\* The user closes the tab k of the DockArea.
CloseTab(k) ==
    /\ k \in 1..Len(app.tree)
    /\ app' = [app EXCEPT !.tree = SubSeq(@, 1, k - 1) \o SubSeq(@, k + 1, Len(@))]
    /\ last' = Op("close_tab", k, TRUE, <<>>, None, NoEntry)
    /\ UNCHANGED <<file, readerVars, file_changed, now, uiVars, watcher, log_view, tables,
                   viewer_state, log_entries_tab, selection_state, input>>

InitRecent ==
    /\ Opened(<<>>)
    /\ search_ui = "none"
    /\ input = <<>>

NextRecent ==
    \/ \E file_path \in {NoPath} \cup {SomePath(path) : path \in Paths},
          picked \in {NoPath} \cup {SomePath(path) : path \in Paths},
          opened \in BOOLEAN :
          OpenPath(file_path, picked, opened)
    \/ \E k \in 1..MaxTabs : CloseTab(k)

SpecRecent == InitRecent /\ [][NextRecent]_vars

\* No path is listed twice.
DuplicateFree(seq) == \A j, k \in 1..Len(seq) : seq[j] = seq[k] => j = k

\* C30: after any calls of open_file, recent_files lists no path twice, and a
\* path only once LogView::open succeeded for it: an open_file whose file
\* dialog is cancelled or whose LogView::open fails adds no tab and leaves
\* recent_files as it is; one that succeeds pushes exactly one tab, of that
\* path, and adds the path to recent_files if and only if it is not listed.
C30_RecentFiles ==
    /\ DuplicateFree(app.recent_files)
    /\ [][/\ DuplicateFree(app'.recent_files)
          /\ last'.op = "open_path" =>
                IF last'.arg # <<>> /\ last'.io_ok
                THEN /\ app'.tree = Append(app.tree, last'.arg[1])
                     /\ app'.recent_files =
                           IF last'.arg[1] \in Range(app.recent_files) THEN app.recent_files
                           ELSE Append(app.recent_files, last'.arg[1])
                ELSE app' = app
          /\ last'.op # "open_path" => app'.recent_files = app.recent_files]_vars

\* b.log was opened, then c.log, whose tab was closed again; b.log was opened
\* a second time, which gave a second tab and no second entry; an open of
\* a.log failed and left no trace.
C30_Witness ==
    /\ last.op = "open_path"
    /\ last.arg = <<LogPath>>
    /\ ~last.io_ok
    /\ app.recent_files = <<"b.log", "c.log">>
    /\ app.tree = <<"b.log", "b.log">>

=============================================================================
